---- MODULE Spec2Model ----
(***************************************************************************)
(* A state-machine model of the SciCover pipeline: the orchestrator        *)
(* (scripts/pipeline/runner.py), the identifier helper                     *)
(* (scripts/utils/helpers.py), the HTTP fetch helpers                      *)
(* (scripts/scraper/base.py, scripts/ai/fulltext.py), the full-text        *)
(* cascade (scripts/ai/fulltext.py) and the summariser                     *)
(* (scripts/ai/summarizer.py).                                             *)
(*                                                                         *)
(* Python strings that the code inspects character by character (journal   *)
(* names, dates, identifiers) are sequences of one-character strings.      *)
(* None is the record [none |-> TRUE]; every value that may be None is a   *)
(* record or a sequence.                                                   *)
(***************************************************************************)
EXTENDS Integers, Sequences, FiniteSets, TLC

VARIABLES
  store,        \* data/articles/**: the persisted record files, a set of [path, entry]
  index,        \* data/index.json: None or [articles], lastUpdated left out
  latest,       \* data/latest.json: None or [paths], journal -> path of a record
  exit_code,    \* the exit of the process (main): None while it runs, then [status]
  runs,         \* number of runner processes started so far
  dry_run,      \* PipelineRunner.dry_run
  summarizer,   \* PipelineRunner.summarizer: None or the BilingualSummarizer
  scrapers,     \* PipelineRunner.scrapers: sequence of scraper classes
  idx,          \* position of the for loop of run() in scrapers
  report,       \* the report of run(): [processed, skipped, errors]
  pc,           \* control point of run() / _process_journal()
  raw,          \* _process_journal local: the CoverArticleRaw, or None
  article_id,   \* _process_journal local
  entry_file,   \* _process_journal local: the path of the record file
  image_path,   \* _process_journal local: None or the cover file
  fulltext,     \* _process_journal local: None or the text
  ai_output,    \* _process_journal local: None or the validated dict
  netlog,       \* history: network calls made for the source being processed
  steps,        \* history: steps taken for the source being processed
  hist,         \* history: one entry per source handled in this run
  http,         \* state of one call of an HTTP fetch helper
  summ,         \* state of one call of BilingualSummarizer.summarize
  ft,           \* state of one call of fetch_fulltext
  wj,           \* state of one call of _write_json
  sc,           \* state of one call of an adapter's scrape method
  ex            \* state of one call of a field-extraction helper of an adapter

vars ==
  << store, index, latest, exit_code, runs, dry_run, summarizer, scrapers, idx, report,
     pc, raw, article_id, entry_file, image_path, fulltext, ai_output,
     netlog, steps, hist, http, summ, ft, wj, sc, ex >>

fsVars == << store, index, latest >>
runnerVars == << runs, dry_run, summarizer, scrapers, exit_code >>
localVars == << raw, article_id, entry_file, image_path, fulltext, ai_output >>
subVars == << http, summ, ft, wj, sc, ex >>

None == [none |-> TRUE]

-----------------------------------------------------------------------------
(* Characters and strings                                                  *)

Digits == {"0", "1", "2", "3", "4", "5", "6", "7", "8", "9"}

UpperSeq ==
  << "A", "B", "C", "D", "E", "F", "G", "H", "I", "J", "K", "L", "M",
     "N", "O", "P", "Q", "R", "S", "T", "U", "V", "W", "X", "Y", "Z" >>

LowerSeq ==
  << "a", "b", "c", "d", "e", "f", "g", "h", "i", "j", "k", "l", "m",
     "n", "o", "p", "q", "r", "s", "t", "u", "v", "w", "x", "y", "z" >>

LowerLetters == { LowerSeq[i] : i \in 1..26 }

Whitespace == {" ", "\t", "\n"}

\* str.lower() on one character
LowerChar(c) ==
  IF \E i \in 1..26 : UpperSeq[i] = c
    THEN LowerSeq[CHOOSE i \in 1..26 : UpperSeq[i] = c]
    ELSE c

\* str.lower()
Lower(s) == [i \in 1..Len(s) |-> LowerChar(s[i])]

\* the characters of s that are in keep, in order: re.sub(r"[^...]", "", s)
RECURSIVE KeepOnly(_, _)
KeepOnly(s, keep) ==
  IF s = << >> THEN << >>
  ELSE IF Head(s) \in keep THEN << Head(s) >> \o KeepOnly(Tail(s), keep)
  ELSE KeepOnly(Tail(s), keep)

\* re.sub(r"[^a-z0-9]+", "-", s): every maximal run of other characters
\* becomes one hyphen
RECURSIVE SubRuns(_, _)
SubRuns(s, inRun) ==
  IF s = << >> THEN << >>
  ELSE IF Head(s) \in (LowerLetters \cup Digits)
    THEN << Head(s) >> \o SubRuns(Tail(s), FALSE)
  ELSE IF inRun THEN SubRuns(Tail(s), TRUE)
  ELSE << "-" >> \o SubRuns(Tail(s), TRUE)

\* str.lstrip(chars) / str.rstrip(chars) / str.strip(chars)
RECURSIVE LStrip(_, _)
LStrip(s, chars) ==
  IF s # << >> /\ Head(s) \in chars THEN LStrip(Tail(s), chars) ELSE s

RECURSIVE RStrip(_, _)
RStrip(s, chars) ==
  IF s # << >> /\ s[Len(s)] \in chars
    THEN RStrip(SubSeq(s, 1, Len(s) - 1), chars)
    ELSE s

Strip(s, chars) == RStrip(LStrip(s, chars), chars)

\* the decimal value of a sequence of digits
DigitVal(c) == CHOOSE n \in 0..9 : << "0", "1", "2", "3", "4", "5", "6", "7", "8", "9" >>[n + 1] = c

RECURSIVE NumVal(_)
NumVal(s) ==
  IF s = << >> THEN 0
  ELSE 10 * NumVal(SubSeq(s, 1, Len(s) - 1)) + DigitVal(s[Len(s)])

AllDigits(s) == \A i \in 1..Len(s) : s[i] \in Digits

-----------------------------------------------------------------------------
(* utils.helpers.generate_article_id                                       *)

generate_article_id(journal, date) ==
  LET slug == Strip(SubRuns(Lower(journal), FALSE), {"-"})
      safe_date == KeepOnly(date, Digits \cup {"-"})
  IN  slug \o << "-" >> \o safe_date

-----------------------------------------------------------------------------
(* datetime.strptime(date, "%Y-%m-%d") as runner.py uses it: the year and  *)
(* month of the parsed date, or a ValueError (ok = FALSE).  %Y is four     *)
(* digits, %m is 1[0-2]|0[1-9]|[1-9], %d is 3[01]|[12]\d|0[1-9]|[1-9]| [1-9], *)
(* the whole string must be consumed and the day must exist.               *)

IsLeap(y) == (y % 4 = 0 /\ y % 100 # 0) \/ y % 400 = 0

DaysInMonth(y, m) ==
  IF m = 2 THEN (IF IsLeap(y) THEN 29 ELSE 28)
  ELSE IF m \in {4, 6, 9, 11} THEN 30 ELSE 31

strptime(date) ==
  LET hy == { i \in 1..Len(date) : date[i] = "-" }
      bad == [ok |-> FALSE, year |-> 0, month |-> 0]
  IN  IF Cardinality(hy) # 2 THEN bad
      ELSE
        LET i == CHOOSE a \in hy : \A b \in hy : a <= b
            j == CHOOSE a \in hy : \A b \in hy : a >= b
            Y == SubSeq(date, 1, i - 1)
            M == SubSeq(date, i + 1, j - 1)
            D == SubSeq(date, j + 1, Len(date))
            D1 == IF Len(D) = 2 /\ D[1] = " " THEN Tail(D) ELSE D
            okY == Len(Y) = 4 /\ AllDigits(Y) /\ NumVal(Y) >= 1
            okM == Len(M) \in {1, 2} /\ AllDigits(M) /\ NumVal(M) \in 1..12
            okD == Len(D1) \in {1, 2} /\ AllDigits(D1) /\ NumVal(D1) >= 1
        IN  IF okY /\ okM /\ okD /\ NumVal(D1) <= DaysInMonth(NumVal(Y), NumVal(M))
              THEN [ok |-> TRUE, year |-> NumVal(Y), month |-> NumVal(M)]
              ELSE bad

\* runner.py: the record file of an identity, under data/:
\* articles/<year>/<month>/<id>.json when the date parses, else articles/<id>.json
EntryFile(id, date) ==
  LET dt == strptime(date)
  IN  IF dt.ok THEN [dir |-> << dt.year, dt.month >>, name |-> id]
      ELSE [dir |-> << >>, name |-> id]

-----------------------------------------------------------------------------
(* The adapters                                                            *)

ScraperClasses ==
  { "ScienceScraper", "NatureScraper", "CellScraper",
    "PolGeogScraper", "IntOrgScraper", "ASRScraper" }

ALL_SCRAPERS ==
  << "ScienceScraper", "NatureScraper", "CellScraper",
     "PolGeogScraper", "IntOrgScraper", "ASRScraper" >>

JOURNAL_NAME(cls) ==
  CASE cls = "ScienceScraper" -> << "S", "c", "i", "e", "n", "c", "e" >>
    [] cls = "NatureScraper" -> << "N", "a", "t", "u", "r", "e" >>
    [] cls = "CellScraper" -> << "C", "e", "l", "l" >>
    [] cls = "PolGeogScraper" ->
         << "P", "o", "l", "i", "t", "i", "c", "a", "l", " ",
            "G", "e", "o", "g", "r", "a", "p", "h", "y" >>
    [] cls = "IntOrgScraper" ->
         << "I", "n", "t", "e", "r", "n", "a", "t", "i", "o", "n", "a", "l", " ",
            "O", "r", "g", "a", "n", "i", "z", "a", "t", "i", "o", "n" >>
    [] cls = "ASRScraper" ->
         << "A", "m", "e", "r", "i", "c", "a", "n", " ",
            "S", "o", "c", "i", "o", "l", "o", "g", "i", "c", "a", "l", " ",
            "R", "e", "v", "i", "e", "w" >>

\* CoverRequired with the test for a cover image in every adapter
CoverRequired_every(cls) == TRUE

\* the adapters that return None when no cover image URL was extracted
CoverRequired(cls) == cls \in {"ScienceScraper", "NatureScraper", "CellScraper"}

\* the keys of SCRAPER_MAP
SCRAPER_MAP ==
  [ k \in { "science", "nature", "cell", "political geography", "polgeog",
            "international organization", "intorg",
            "american sociological review", "asr" } |->
      CASE k = "science" -> "ScienceScraper"
        [] k = "nature" -> "NatureScraper"
        [] k = "cell" -> "CellScraper"
        [] k \in {"political geography", "polgeog"} -> "PolGeogScraper"
        [] k \in {"international organization", "intorg"} -> "IntOrgScraper"
        [] OTHER -> "ASRScraper" ]

\* name.lower() on the journal names given on the command line
LowerName(name) ==
  CASE name = "Science" -> "science"
    [] name = "PolGeog" -> "polgeog"
    [] OTHER -> name

RECURSIVE ResolveEach(_)
ResolveEach(journals) ==
  IF journals = << >> THEN << >>
  ELSE LET k == LowerName(Head(journals))
       IN  IF k \in DOMAIN SCRAPER_MAP
             THEN << SCRAPER_MAP[k] >> \o ResolveEach(Tail(journals))
             ELSE ResolveEach(Tail(journals))

\* journals is None or a sequence of names
_resolve_scrapers(journals) ==
  IF journals = None \/ journals = << >> \/ journals = << "all" >>
    THEN ALL_SCRAPERS
    ELSE ResolveEach(journals)

-----------------------------------------------------------------------------
(* ai.fulltext: the full-text cascade.                                     *)
(* A text is [len, brk, wsb, wsm]: its length, text[:MAX].rfind("\n\n")    *)
(* (-1 when there is none), and the number of trailing whitespace          *)
(* characters of text[:brk] and of text[:MAX].                             *)
(* A page is None (the GET failed) or [found, text]: whether the           *)
(* fetcher's container selector matched, and the text _extract_text        *)
(* returns for it.                                                         *)
(* The web is [html, abs, pre, art]: the arXiv HTML rendering, the arXiv   *)
(* abstract page, the page at the preprint URL and the page at the         *)
(* article URL.                                                            *)

MAX_FULLTEXT_CHARS == 60000

MIN_FULLTEXT_CHARS == 500

Text(n) == [len |-> n, brk |-> -1, wsb |-> 0, wsm |-> 0]

\* truthiness of an Optional[str]
Truthy(text) == text # None /\ text.len > 0

\* _truncate without the paragraph rule
_truncate_hard(text) ==
  IF text.len <= MAX_FULLTEXT_CHARS THEN text
  ELSE Text(MAX_FULLTEXT_CHARS - text.wsm)

_truncate(text) ==
  IF text.len <= MAX_FULLTEXT_CHARS THEN text
  ELSE IF text.brk * 10 > MAX_FULLTEXT_CHARS * 8
    THEN Text(text.brk - text.wsb)
    ELSE Text(MAX_FULLTEXT_CHARS - text.wsm)

ArxivUrls == {"https://arxiv.org/abs/2601.08791", "https://arxiv.org/a/doe_j_1"}

\* re.search(r"(\d{4}\.\d{4,5})(v\d+)?", url)
HasArxivId(url) == url = "https://arxiv.org/abs/2601.08791"

BiorxivUrls == {"https://www.biorxiv.org/content/10.1101/2025.01.01.1v1"}

SsrnUrls == {"https://ssrn.com/abstract=5000001"}

PreprintUrls ==
  {""} \cup ArxivUrls \cup BiorxivUrls \cup SsrnUrls \cup {"https://chemrxiv.org/engage/1"}

ScienceDirectUrls == {"https://www.sciencedirect.com/science/article/pii/S1"}

CambridgeUrls == {"https://www.cambridge.org/core/journals/io/article/1"}

ArticleUrls ==
  {""} \cup ScienceDirectUrls \cup CambridgeUrls \cup {"https://www.science.org/doi/10.1126/1"}

\* a fetcher result: the text returned (or None) and the GETs made
Got(text, gets) == [ret |-> text, gets |-> gets]

\* FetchBody taking any non-empty text
FetchBody_any_text(page, label) ==
  IF page = None THEN Got(None, << label >>)
  ELSE IF page.found /\ page.text.len > 0
    THEN Got(page.text, << label >>)
    ELSE Got(None, << label >>)

\* a fetcher that GETs one page and takes the container's text when it is
\* longer than the threshold
FetchBody(page, label) ==
  IF page = None THEN Got(None, << label >>)
  ELSE IF page.found /\ page.text.len > MIN_FULLTEXT_CHARS
    THEN Got(page.text, << label >>)
    ELSE Got(None, << label >>)

_fetch_arxiv(url, web) ==
  IF ~HasArxivId(url) THEN Got(None, << >>)
  ELSE IF web.html # None /\ web.html.found /\ web.html.text.len > MIN_FULLTEXT_CHARS
    THEN Got(web.html.text, << "arxiv.org/html" >>)
  ELSE IF web.abs # None /\ web.abs.found /\ web.abs.text.len > 0
    THEN Got(web.abs.text, << "arxiv.org/html", "arxiv.org/abs" >>)
    ELSE Got(None, << "arxiv.org/html", "arxiv.org/abs" >>)

_fetch_biorxiv(url, web) == FetchBody(web.pre, "biorxiv.org/full")

_fetch_ssrn(url, web) ==
  IF web.pre # None /\ web.pre.found /\ web.pre.text.len > 0
    THEN Got(web.pre.text, << "ssrn.com" >>)
    ELSE Got(None, << "ssrn.com" >>)

_fetch_sciencedirect(url, web) == FetchBody(web.art, "sciencedirect.com")

_fetch_cambridge(url, web) == FetchBody(web.art, "cambridge.org")

_try_preprint(url, web) ==
  IF url \in ArxivUrls THEN _fetch_arxiv(url, web)
  ELSE IF url \in BiorxivUrls THEN _fetch_biorxiv(url, web)
  ELSE IF url \in SsrnUrls THEN _fetch_ssrn(url, web)
  ELSE Got(None, << >>)

_try_open_access(url, web) ==
  IF url \in ScienceDirectUrls THEN _fetch_sciencedirect(url, web)
  ELSE IF url \in CambridgeUrls THEN _fetch_cambridge(url, web)
  ELSE Got(None, << >>)

\* Strategy 1 of fetch_fulltext: is the preprint step taken
TryPreprintFirst(preprint_url) == preprint_url # ""

\* TryOpenAccessNext without the test on the result of the preprint step
TryOpenAccessNext_always(article_url, pre) == article_url # ""

\* Strategy 2 of fetch_fulltext: is the open-access step taken, the
\* preprint step having returned pre (None when it was not taken)
TryOpenAccessNext(article_url, pre) == ~Truthy(pre) /\ article_url # ""

\* the result, the dispatch steps taken in order, and the GETs made
fetch_fulltext(preprint_url, article_url, web) ==
  LET first == TryPreprintFirst(preprint_url)
      p == IF first THEN _try_preprint(preprint_url, web) ELSE Got(None, << >>)
      second == TryOpenAccessNext(article_url, p.ret)
      o == IF second THEN _try_open_access(article_url, web) ELSE Got(None, << >>)
      tried == (IF first THEN << "preprint" >> ELSE << >>)
                 \o (IF second THEN << "open_access" >> ELSE << >>)
      gets == p.gets \o o.gets
  IN  IF Truthy(p.ret)
        THEN [ret |-> _truncate(p.ret), tried |-> tried, gets |-> gets]
      ELSE IF Truthy(o.ret)
        THEN [ret |-> _truncate(o.ret), tried |-> tried, gets |-> gets]
      ELSE [ret |-> None, tried |-> tried, gets |-> gets]

-----------------------------------------------------------------------------
(* ai.summarizer                                                           *)
(* A JSON value is [t, v]: t is "dict" (v maps keys to JSON values),       *)
(* "str" (v is the string) or another type name.                           *)

MAX_RETRIES == 1

_REQUIRED_KEYS == {"title", "summary"}

_REQUIRED_LANG_KEYS == {"zh", "en"}

JStr(s) == [t |-> "str", v |-> s]

JDict(f) == [t |-> "dict", v |-> f]

JList == [t |-> "list", v |-> << >>]

\* _validate_output without the test of the values of zh and en
_validate_output_keys(data) ==
  /\ data.t = "dict"
  /\ _REQUIRED_KEYS \subseteq DOMAIN data.v
  /\ \A key \in _REQUIRED_KEYS :
       LET inner == data.v[key]
       IN  /\ inner.t = "dict"
           /\ _REQUIRED_LANG_KEYS \subseteq DOMAIN inner.v

_validate_output(data) ==
  /\ data.t = "dict"
  /\ _REQUIRED_KEYS \subseteq DOMAIN data.v
  /\ \A key \in _REQUIRED_KEYS :
       LET inner == data.v[key]
       IN  /\ inner.t = "dict"
           /\ _REQUIRED_LANG_KEYS \subseteq DOMAIN inner.v
           /\ \A lang \in _REQUIRED_LANG_KEYS :
                /\ inner.v[lang].t = "str"
                /\ Strip(inner.v[lang].v, Whitespace) # << >>

\* One model call.  The response is [kind, data]: kind "raise" (the client
\* call raised), "empty" (no content) or "text"; data is the value
\* json.loads gives for the cleaned text, None when it raises JSONDecodeError.
_call_model(response) ==
  IF response.kind = "raise" THEN [raised |-> TRUE, ret |-> None]
  ELSE IF response.kind = "empty" THEN [raised |-> FALSE, ret |-> None]
  ELSE IF response.data = None THEN [raised |-> FALSE, ret |-> None]
  ELSE IF ~_validate_output(response.data) THEN [raised |-> FALSE, ret |-> None]
  ELSE [raised |-> FALSE, ret |-> response.data]

\* SummarizeAttempt without the except clause around the model call
SummarizeAttempt_reraise(r) ==
  IF r.raised THEN "raise"
  ELSE IF r.ret # None THEN "return"
  ELSE "next"

\* the try/except of one iteration of summarize: "return" the result,
\* go on to the next attempt ("next"), or let the exception out ("raise")
SummarizeAttempt(r) ==
  IF r.raised THEN "next"
  ELSE IF r.ret # None THEN "return"
  ELSE "next"

\* the attempts of summarize: range(1, MAX_RETRIES + 2)
SummarizeAttempts == 1..(MAX_RETRIES + 1)

\* summarize from attempt n on; responses[n] answers the n-th model call.
\* The result: the value returned, the model calls made, whether it raised.
RECURSIVE SummarizeFrom(_, _)
SummarizeFrom(responses, n) ==
  IF n \notin SummarizeAttempts
    THEN [ret |-> None, calls |-> n - 1, raised |-> FALSE]
    ELSE LET r == _call_model(responses[n])
             o == SummarizeAttempt(r)
         IN  IF o = "return" THEN [ret |-> r.ret, calls |-> n, raised |-> FALSE]
             ELSE IF o = "raise" THEN [ret |-> None, calls |-> n, raised |-> TRUE]
             ELSE SummarizeFrom(responses, n + 1)

summarize(responses) == SummarizeFrom(responses, 1)

\* the parameters of BilingualSummarizer.summarize besides self
SummarizeParams == {"article"}

\* binding the arguments of a call: nPositional positional arguments and
\* the keyword arguments named; a keyword that is no parameter is a TypeError
BindsCall(params, nPositional, keywords) ==
  /\ nPositional <= Cardinality(params)
  /\ keywords \subseteq params

-----------------------------------------------------------------------------
(* The HTTP fetch helpers: BaseScraper._fetch and fulltext._http_get       *)

HttpHelpers == {"_fetch", "_http_get"}

\* _fetch: retries = 2; _http_get: range(1, 3)
FETCH_RETRIES == 2

HTTP_GET_ATTEMPTS == 2

\* _fetch: delay = 3.0; _http_get: time.sleep(2)
FETCH_DELAY == 3

HTTP_GET_SLEEP == 2

Retries(helper) == IF helper = "_fetch" THEN FETCH_RETRIES ELSE HTTP_GET_ATTEMPTS

SleepAfter(helper, attempt) ==
  IF helper = "_fetch" THEN FETCH_DELAY * attempt ELSE HTTP_GET_SLEEP

\* resp.raise_for_status(): HTTPError for a 4xx or 5xx status
raise_for_status(status) == 400 <= status /\ status < 600

\* the exceptions session.get / requests.get / raise_for_status raise, all
\* of them subclasses of requests.RequestException
RequestExceptions == {"ConnectionError", "Timeout", "HTTPError", "TooManyRedirects"}

\* what one attempt raises: outcome is [kind, status, body], kind "response"
\* or the exception of the GET; "none" when the attempt raises nothing
Raised(outcome) ==
  IF outcome.kind # "response" THEN outcome.kind
  ELSE IF raise_for_status(outcome.status) THEN "HTTPError"
  ELSE "none"

\* except requests.RequestException
CatchesRequestException(kind) == kind \in RequestExceptions

\* SleepsAfter without the test on the attempts left
SleepsAfter_always(helper, attempt) == TRUE

\* does the helper sleep after failed attempt n
SleepsAfter(helper, attempt) == attempt < Retries(helper)

\* one iteration of the retry loop; after the last iteration the helper
\* returns None
HttpIteration(h, outcome) ==
  IF Raised(outcome) = "none"
    THEN [h EXCEPT !.pc = "returned", !.ret = [text |-> outcome.body],
                   !.log = Append(@, outcome)]
  ELSE IF ~CatchesRequestException(Raised(outcome))
    THEN [h EXCEPT !.pc = "raised", !.log = Append(@, outcome)]
  ELSE
    LET slept == IF SleepsAfter(h.helper, h.attempt)
                   THEN Append(h.sleeps, SleepAfter(h.helper, h.attempt))
                   ELSE h.sleeps
    IN  IF h.attempt < Retries(h.helper)
          THEN [h EXCEPT !.attempt = @ + 1, !.log = Append(@, outcome),
                         !.sleeps = slept]
          ELSE [h EXCEPT !.pc = "returned", !.ret = None,
                         !.log = Append(@, outcome), !.sleeps = slept]

-----------------------------------------------------------------------------
(* The adapters' scrape_current_issue, as the orchestrator sees it.        *)
(* A page is what the publisher serves during one scrape:                  *)
(*   toc      "ok" / "fail" (the listing fetch) / "raise" (the listing is  *)
(*            fetched and the extraction of a field from it raises an      *)
(*            exception, as urljoin does in _abs_url on a malformed src;   *)
(*            no adapter has an except clause for it)                      *)
(*   toc2     the fallback listing fetch of PolGeogScraper                 *)
(*   date, cover   the date and cover image URL extracted                  *)
(*   article  "none" (no lead article link), "ok" / "fail" (the fetch of   *)
(*            the article page)                                            *)
(*   preprint the preprint link on the article page                        *)

\* the lead article's URL on the publisher's site
ArticleUrlOf(cls) ==
  IF cls = "PolGeogScraper"
    THEN "https://www.sciencedirect.com/science/article/pii/S1"
    ELSE "https://www.science.org/doi/10.1126/1"

_scrape_toc_page(cls, fetched, page) ==
  IF ~fetched THEN [ret |-> None, calls |-> << "listing" >>]
  ELSE
    LET r == [journal |-> JOURNAL_NAME(cls),
              date |-> page.date,
              cover_image_url |-> page.cover,
              article_url |-> IF page.article = "none" THEN "" ELSE ArticleUrlOf(cls),
              preprint_url |-> IF page.article = "ok" THEN page.preprint ELSE ""]
        calls == IF r.article_url # "" THEN << "listing", "article" >>
                 ELSE << "listing" >>
    IN  IF CoverRequired(cls) /\ r.cover_image_url = ""
          THEN [ret |-> None, calls |-> calls]
          ELSE [ret |-> r, calls |-> calls]

\* scrape_current_issue without the second listing URL of PolGeogScraper
scrape_current_issue_no_fallback(cls, page) ==
  _scrape_toc_page(cls, page.toc = "ok", page)

scrape_current_issue(cls, page) ==
  LET first == _scrape_toc_page(cls, page.toc = "ok", page)
  IN  IF cls = "PolGeogScraper" /\ first.ret = None
        THEN LET second == _scrape_toc_page(cls, page.toc2 = "ok", page)
             IN  [ret |-> second.ret, calls |-> first.calls \o second.calls]
        ELSE first

-----------------------------------------------------------------------------
(* pipeline.runner                                                         *)

\* the keyword arguments of the call self.summarizer.summarize(raw, fulltext=fulltext)
SummarizeCallKeywords == {"fulltext"}

\* the keyword arguments sorted() accepts, and those of the call
\* sorted(DATA_DIR.glob("articles/**/*.json"), recursive=True)
SortedParams == {"key", "reverse"}

SortedCallKeywords == {"recursive"}

Exists(files, path) == \E f \in files : f.path = path

\* WriteFile that leaves the directory as it is
WriteFile_nothing(files, path, data) == files

\* tmp.write_text(...) then tmp.replace(path)
WriteFile(files, path, data) ==
  { f \in files : f.path # path } \cup { [path |-> path, entry |-> data] }

_guess_image_ext(url) ==
  IF url = "https://www.science.org/cover.png?v=2" THEN ".png" ELSE ".jpg"

EmptyStr == << >>

_build_entry(r, id, img, ai, summary_mode) ==
  LET local_img == IF img # None THEN img ELSE EmptyStr
  IN  [ id |-> id,
        journal |-> r.journal,
        date |-> r.date,
        coverImage |-> [url |-> local_img],
        summary |->
          [zh |-> IF ai # None THEN ai.v["summary"].v["zh"].v ELSE EmptyStr,
           en |-> IF ai # None THEN ai.v["summary"].v["en"].v ELSE EmptyStr],
        images |-> IF local_img # EmptyStr THEN << [url |-> local_img] >> ELSE << >>,
        summary_mode |-> summary_mode ]

EmptyReport == [processed |-> << >>, skipped |-> << >>, errors |-> << >>]

-----------------------------------------------------------------------------
(* Bounds and input domains of the orchestrator model                      *)

\* runner processes started one after the other on the same data directory
MaxRuns == 2

D_ISO == << "2", "0", "2", "5", "-", "0", "6", "-", "2", "0" >>

D_SHORT == << "2", "0", "2", "5", "-", "6", "-", "2", "0" >>

D_SHORT_T == << "2", "0", "2", "5", "-", "6", "-", "2", "0", "T" >>

D_BLANK == << " " >>

\* the dates an adapter leaves in raw.date (at most ten characters of a
\* datetime attribute or meta tag, or a strftime result, or nothing)
DateValues == { EmptyStr, D_BLANK, D_ISO, D_SHORT, D_SHORT_T }

D_TODAY == << "2", "0", "2", "5", "-", "0", "6", "-", "2", "1" >>

\* datetime.now(timezone.utc).strftime("%Y-%m-%d")
TodayValues == { D_TODAY }

COVER_URL == "https://www.science.org/cover.png?v=2"

ARXIV_URL == "https://arxiv.org/abs/2601.08791"

NoPage ==
  [toc |-> "fail", toc2 |-> "fail", date |-> EmptyStr, cover |-> "",
   article |-> "none", preprint |-> ""]

\* the pages science.org serves
SciencePages ==
  { NoPage, [NoPage EXCEPT !.toc = "raise"] }
  \cup { [NoPage EXCEPT !.toc = "ok", !.date = d, !.cover = COVER_URL] :
           d \in DateValues }
  \cup { [NoPage EXCEPT !.toc = "ok", !.date = D_SHORT, !.article = "fail"],
         [NoPage EXCEPT !.toc = "ok", !.date = D_SHORT, !.cover = COVER_URL,
                         !.article = "ok", !.preprint = ARXIV_URL] }

\* the pages sciencedirect.com serves
PolGeogPages ==
  { NoPage,
    [NoPage EXCEPT !.toc2 = "ok", !.date = D_ISO],
    [NoPage EXCEPT !.toc = "ok", !.article = "ok"],
    [NoPage EXCEPT !.toc = "ok", !.date = D_ISO, !.cover = COVER_URL,
                    !.article = "ok", !.preprint = ARXIV_URL] }

PagesOf(cls) == IF cls = "PolGeogScraper" THEN PolGeogPages ELSE SciencePages

\* the journal lists given on the command line
JournalArgs ==
  { << "Science", "polgeog" >>,
    << "polgeog", "political geography" >>,
    << "science", "bogus" >> }

LongText == [len |-> 70000, brk |-> 59000, wsb |-> 0, wsm |-> 1]

NoWeb == [html |-> None, abs |-> None, pre |-> None, art |-> None]

\* what the preprint server and the publisher serve to fetch_fulltext
WebValues ==
  { NoWeb,
    [NoWeb EXCEPT !.html = [found |-> TRUE, text |-> Text(501)]],
    [NoWeb EXCEPT !.art = [found |-> TRUE, text |-> LongText]] }

ValidOutput ==
  JDict([title |-> JDict([zh |-> JStr(<< "t" >>), en |-> JStr(<< "t" >>)]),
         summary |-> JDict([zh |-> JStr(<< "s" >>), en |-> JStr(<< "s" >>)])])

\* the answers of the model to the calls of one summarize
PipelineResponses ==
  { [n \in SummarizeAttempts |-> [kind |-> "text", data |-> ValidOutput]],
    [n \in SummarizeAttempts |-> [kind |-> "empty", data |-> None]] }

-----------------------------------------------------------------------------
(* PipelineRunner.__init__ and the start of run()                          *)

NoLocals ==
  /\ raw' = None
  /\ article_id' = EmptyStr
  /\ entry_file' = None
  /\ image_path' = None
  /\ fulltext' = None
  /\ ai_output' = None

\* NewRunner building the summarizer whatever dry_run is
NewRunner_always_summarizer(journals, dry) ==
  /\ pc \in {"idle", "exited"}
  /\ runs < MaxRuns
  /\ runs' = runs + 1
  /\ exit_code' = None
  /\ dry_run' = dry
  /\ scrapers' = _resolve_scrapers(journals)
  /\ summarizer' = [client |-> "OpenAI"]
  /\ report' = EmptyReport
  /\ idx' = 1
  /\ pc' = "loop"
  /\ hist' = << >>
  /\ netlog' = << >>
  /\ steps' = << >>
  /\ NoLocals
  /\ UNCHANGED << fsVars, subVars >>

NewRunner(journals, dry) ==
  /\ pc \in {"idle", "exited"}
  /\ runs < MaxRuns
  /\ runs' = runs + 1
  /\ exit_code' = None
  /\ dry_run' = dry
  /\ scrapers' = _resolve_scrapers(journals)
  /\ summarizer' = IF dry THEN None ELSE [client |-> "OpenAI"]
  /\ report' = EmptyReport
  /\ idx' = 1
  /\ pc' = "loop"
  /\ hist' = << >>
  /\ netlog' = << >>
  /\ steps' = << >>
  /\ NoLocals
  /\ UNCHANGED << fsVars, subVars >>

\* for scraper_cls in self.scrapers: scraper = scraper_cls()
BeginSource ==
  /\ pc = "loop"
  /\ idx <= Len(scrapers)
  /\ pc' = "scrape"
  /\ netlog' = << >>
  /\ steps' = << >>
  /\ UNCHANGED << fsVars, runnerVars, idx, report, localVars, hist, subVars >>

EndLoop ==
  /\ pc = "loop"
  /\ idx > Len(scrapers)
  /\ pc' = "index"
  /\ UNCHANGED << fsVars, runnerVars, idx, report, localVars, netlog, steps, hist, subVars >>

\* Finish that leaves the loop on the same source
Finish_same_source(rep, outcome, id, net, stp) ==
  /\ report' = rep
  /\ hist' = Append(hist, [cls |-> scrapers[idx], outcome |-> outcome, id |-> id])
  /\ idx' = idx
  /\ pc' = "loop"
  /\ netlog' = net
  /\ steps' = stp
  /\ NoLocals

\* the end of one iteration of the loop of run(): the report as it is now,
\* the history entry of the source, and the network calls and steps it took
Finish(rep, outcome, id, net, stp) ==
  /\ report' = rep
  /\ hist' = Append(hist, [cls |-> scrapers[idx], outcome |-> outcome, id |-> id])
  /\ idx' = idx + 1
  /\ pc' = "loop"
  /\ netlog' = net
  /\ steps' = stp
  /\ NoLocals

\* RunExcept without the try/except of the loop: the exception leaves run()
RunExcept_propagates(exc, net, stp) ==
  /\ report' = report
  /\ hist' = hist
  /\ idx' = idx
  /\ pc' = "raised"
  /\ netlog' = net
  /\ steps' = stp
  /\ NoLocals

\* except Exception as exc: report["errors"].append(...)
RunExcept(exc, net, stp) ==
  Finish([report EXCEPT !.errors =
            Append(@, [journal |-> JOURNAL_NAME(scrapers[idx]), error |-> exc])],
         "exception", EmptyStr, net, stp)

\* ReportAbsent that returns without an entry in the report
ReportAbsent_silent(net, stp) == Finish(report, "absent", EmptyStr, net, stp)

\* if raw is None: report["errors"].append(...); return
ReportAbsent(net, stp) ==
  Finish([report EXCEPT !.errors =
            Append(@, [journal |-> JOURNAL_NAME(scrapers[idx]),
                       error |-> "scraper returned None"])],
         "absent", EmptyStr, net, stp)

-----------------------------------------------------------------------------
(* PipelineRunner._process_journal, step by step                           *)

\* Step 1: raw = scraper.scrape_current_issue(); if raw is None: ...
Scrape(page) ==
  /\ pc = "scrape"
  /\ page \in PagesOf(scrapers[idx])
  /\ LET r == scrape_current_issue(scrapers[idx], page)
     IN  IF page.toc = "raise"
           THEN /\ RunExcept("Exception", << "listing" >>, << "SCRAPE" >>)
           ELSE IF r.ret = None
             THEN /\ ReportAbsent(r.calls, << "SCRAPE" >>)
             ELSE /\ raw' = r.ret
                  /\ netlog' = r.calls
                  /\ steps' = << "SCRAPE" >>
                  /\ pc' = "validate"
                  /\ UNCHANGED << idx, report, hist, article_id, entry_file,
                                  image_path, fulltext, ai_output >>
  /\ UNCHANGED << fsVars, runnerVars, subVars >>

\* NeedsToday without the strip() test
NeedsToday_empty_only(date) == date = EmptyStr

\* if not raw.date or not raw.date.strip(): raw.date = today
NeedsToday(date) == date = EmptyStr \/ Strip(date, Whitespace) = EmptyStr

ValidateDate(today) ==
  /\ pc = "validate"
  /\ raw' = IF NeedsToday(raw.date) THEN [raw EXCEPT !.date = today] ELSE raw
  /\ steps' = Append(steps, "VALIDATE_DATE")
  /\ pc' = "dedup"
  /\ UNCHANGED << fsVars, runnerVars, idx, report, hist, article_id, entry_file,
                  image_path, fulltext, ai_output, netlog, subVars >>

\* Step 2: article_id, entry_file; if entry_file.exists(): skipped; return
AlreadyHave(files, path) == Exists(files, path)

\* Deduplicate placed after the image download
Deduplicate_after_image ==
  /\ pc = "dedup"
  /\ LET id == generate_article_id(raw.journal, raw.date)
         file == EntryFile(id, raw.date)
     IN  IF AlreadyHave(store, file)
           THEN Finish([report EXCEPT !.skipped = Append(@, id)], "skipped", id,
                       Append(netlog, "image"), Append(steps, "DEDUPLICATE"))
           ELSE /\ article_id' = id
                /\ entry_file' = file
                /\ steps' = Append(steps, "DEDUPLICATE")
                /\ pc' = "image"
                /\ UNCHANGED << idx, report, hist, raw, image_path, fulltext,
                                ai_output, netlog >>
  /\ UNCHANGED << fsVars, runnerVars, subVars >>

Deduplicate ==
  /\ pc = "dedup"
  /\ LET id == generate_article_id(raw.journal, raw.date)
         file == EntryFile(id, raw.date)
     IN  IF AlreadyHave(store, file)
           THEN Finish([report EXCEPT !.skipped = Append(@, id)], "skipped", id,
                       netlog, Append(steps, "DEDUPLICATE"))
           ELSE /\ article_id' = id
                /\ entry_file' = file
                /\ steps' = Append(steps, "DEDUPLICATE")
                /\ pc' = "image"
                /\ UNCHANGED << idx, report, hist, raw, image_path, fulltext,
                                ai_output, netlog >>
  /\ UNCHANGED << fsVars, runnerVars, subVars >>

\* DownloadImage that tries the download again when it failed
DownloadImage_again(got) ==
  /\ pc = "image"
  /\ raw.cover_image_url # ""
  /\ image_path' = IF got THEN [name |-> article_id,
                                ext |-> _guess_image_ext(raw.cover_image_url)]
                   ELSE None
  /\ netlog' = Append(netlog, "image")
  /\ steps' = Append(steps, "DOWNLOAD_IMAGE")
  /\ pc' = IF got THEN "fulltext" ELSE "image"
  /\ UNCHANGED << fsVars, runnerVars, idx, report, hist, raw, article_id, entry_file,
                  fulltext, ai_output, subVars >>

\* Step 3: download_image(raw.cover_image_url, image_path); got is whether
\* the download and the write of the image file succeed.  The image files
\* under data/images/ are read by nothing in the pipeline and are not kept.
DownloadImage(got) ==
  /\ pc = "image"
  /\ IF raw.cover_image_url # ""
       THEN LET file == [name |-> article_id, ext |-> _guess_image_ext(raw.cover_image_url)]
            IN  /\ image_path' = IF got THEN file ELSE None
                /\ netlog' = Append(netlog, "image")
                /\ steps' = Append(steps, "DOWNLOAD_IMAGE")
       ELSE /\ got
            /\ image_path' = None
            /\ UNCHANGED << netlog, steps >>
  /\ pc' = "fulltext"
  /\ UNCHANGED << fsVars, runnerVars, idx, report, hist, raw, article_id, entry_file,
                  fulltext, ai_output, subVars >>

\* Step 4: fetch_fulltext(...) inside try/except Exception, unless dry_run;
\* boom is an exception escaping fetch_fulltext
FetchFulltext(web, boom) ==
  /\ pc = "fulltext"
  /\ boom => web = NoWeb
  /\ IF ~dry_run
       THEN LET r == fetch_fulltext(raw.preprint_url, raw.article_url, web)
            IN  /\ fulltext' = IF boom THEN None ELSE r.ret
                /\ netlog' = netlog \o [i \in 1..Len(r.gets) |-> "fulltext"]
                /\ steps' = Append(steps, "FETCH_FULLTEXT")
       ELSE /\ web = NoWeb
            /\ ~boom
            /\ fulltext' = None
            /\ UNCHANGED << netlog, steps >>
  /\ pc' = "summarize"
  /\ UNCHANGED << fsVars, runnerVars, idx, report, hist, raw, article_id, entry_file,
                  image_path, ai_output, subVars >>

\* Step 5: ai_output = self.summarizer.summarize(raw, fulltext=fulltext),
\* unless dry_run
Summarize(responses) ==
  /\ pc = "summarize"
  /\ IF ~dry_run /\ summarizer # None
       THEN IF ~BindsCall(SummarizeParams, 1, SummarizeCallKeywords)
              THEN RunExcept("TypeError", netlog, Append(steps, "SUMMARIZE"))
              ELSE LET r == summarize(responses)
                   IN  /\ ai_output' = r.ret
                       /\ netlog' = netlog \o [i \in 1..r.calls |-> "model"]
                       /\ steps' = Append(steps, "SUMMARIZE")
                       /\ pc' = "persist"
                       /\ UNCHANGED << idx, report, hist, raw, article_id,
                                       entry_file, image_path, fulltext >>
       ELSE /\ responses = CHOOSE x \in PipelineResponses : TRUE
            /\ ai_output' = None
            /\ pc' = "persist"
            /\ UNCHANGED << idx, report, hist, raw, article_id, entry_file,
                            image_path, fulltext, netlog, steps >>
  /\ UNCHANGED << fsVars, runnerVars, subVars >>

\* Step 6: entry = self._build_entry(...); self._write_json(entry_file, entry);
\* report["processed"].append(article_id).  io is "ok" or the OSError of
\* the write, which _write_json re-raises after removing the temporary file
Persist(io) ==
  /\ pc = "persist"
  /\ LET entry == _build_entry(raw, article_id, image_path, ai_output,
                               IF Truthy(fulltext) THEN "full-text" ELSE "abstract-only")
     IN  IF io = "ok"
           THEN /\ store' = WriteFile(store, entry_file, entry)
                /\ index' = index
                /\ latest' = latest
                /\ Finish([report EXCEPT !.processed = Append(@, article_id)],
                          "processed", article_id, netlog,
                          steps \o << "ASSEMBLE", "PERSIST" >>)
           ELSE /\ UNCHANGED fsVars
                /\ RunExcept("OSError", netlog, steps \o << "ASSEMBLE", "PERSIST" >>)
  /\ UNCHANGED << runnerVars, subVars >>

\* the characters of paths and dates in the order of their code points
CodePoints ==
  << " ", "-", ".", "0", "1", "2", "3", "4", "5", "6", "7", "8", "9" >>
    \o UpperSeq \o LowerSeq

Ord(c) == CHOOSE i \in 1..Len(CodePoints) : CodePoints[i] = c

\* a < b on str
RECURSIVE StrLess(_, _)
StrLess(a, b) ==
  IF b = << >> THEN FALSE
  ELSE IF a = << >> THEN TRUE
  ELSE IF Head(a) # Head(b) THEN Ord(Head(a)) < Ord(Head(b))
  ELSE StrLess(Tail(a), Tail(b))

\* strftime("%Y"), strftime("%m"): n in w digits
RECURSIVE ZeroPadded(_, _)
ZeroPadded(n, w) ==
  IF w = 0 THEN << >>
  ELSE ZeroPadded(n \div 10, w - 1) \o << CodePoints[(n % 10) + 4] >>

\* the parts of a record file path below data/articles
PathParts(path) ==
  (IF path.dir = << >> THEN << >>
   ELSE << ZeroPadded(path.dir[1], 4), ZeroPadded(path.dir[2], 2) >>)
    \o << path.name \o << ".", "j", "s", "o", "n" >> >>

\* a < b on Path: part by part
RECURSIVE PartsLess(_, _)
PartsLess(a, b) ==
  IF b = << >> THEN FALSE
  ELSE IF a = << >> THEN TRUE
  ELSE IF Head(a) # Head(b) THEN StrLess(Head(a), Head(b))
  ELSE PartsLess(Tail(a), Tail(b))

\* sorted(DATA_DIR.glob("articles/**/*.json"))
RECURSIVE SortedFiles(_)
SortedFiles(files) ==
  IF files = { } THEN << >>
  ELSE LET f == CHOOSE g \in files :
                  \A h \in files \ {g} : PartsLess(PathParts(g.path), PathParts(h.path))
       IN  << f >> \o SortedFiles(files \ {f})

\* the reference to a record in the index; the titles of the cover story
\* are not part of the entries of this model
IndexRef(f) ==
  [id |-> f.entry.id, journal |-> f.entry.journal, date |-> f.entry.date,
   path |-> f.path, cover_url |-> f.entry.coverImage.url]

\* articles.sort(key=lambda e: e.get("date", ""), reverse=True): stable
RECURSIVE SortNewestFirst(_)
SortNewestFirst(articles) ==
  IF articles = << >> THEN << >>
  ELSE LET x == Head(articles)
           rest == SortNewestFirst(Tail(articles))
           newer == { i \in 1..Len(rest) : StrLess(x.date, rest[i].date) }
           n == Cardinality(newer)
       IN  SubSeq(rest, 1, n) \o << x >> \o SubSeq(rest, n + 1, Len(rest))

\* the articles that _rebuild_index writes to index.json; data/ holds no
\* flat legacy *.json files besides index.json and latest.json
_rebuild_index(files) ==
  LET sorted == SortedFiles(files)
  IN  SortNewestFirst([i \in 1..Len(sorted) |-> IndexRef(sorted[i])])

\* RebuildIndex that stamps the index with the number of the run and writes it
\* whatever sorted() does
RebuildIndex_stamped ==
  /\ pc = "index"
  /\ pc' = "raised"
  /\ index' = [articles |-> _rebuild_index(store), run |-> runs]
  /\ store' = store
  /\ latest' = latest
  /\ UNCHANGED << runnerVars, idx, report, localVars, netlog, steps, hist, subVars >>

\* sorted(DATA_DIR.glob("articles/**/*.json"), reverse=True)
Reversed(seq) == [i \in 1..Len(seq) |-> seq[Len(seq) + 1 - i]]

\* for f in all_files: if journal and journal not in latest: latest[journal] = path
RECURSIVE LatestFrom(_, _)
LatestFrom(all_files, paths) ==
  IF all_files = << >> THEN paths
  ELSE LET f == Head(all_files)
           journal == f.entry.journal
       IN  LatestFrom(Tail(all_files),
                      IF journal # EmptyStr /\ journal \notin DOMAIN paths
                        THEN paths @@ (journal :> f.path)
                        ELSE paths)

\* the mapping that _rebuild_latest writes to latest.json
_rebuild_latest(files) == LatestFrom(Reversed(SortedFiles(files)), << >>)

\* self._rebuild_index(); self._rebuild_latest(): the first statement of
\* _rebuild_index calls sorted() with the keyword recursive, which sorted()
\* does not take; the TypeError leaves run() before anything is read or
\* written, and _rebuild_latest is not called
RebuildIndex ==
  /\ pc = "index"
  /\ IF ~BindsCall(SortedParams \cup {"iterable"}, 1, SortedCallKeywords)
       THEN /\ pc' = "raised"
            /\ UNCHANGED fsVars
       ELSE /\ pc' = "returned"
            /\ index' = [articles |-> _rebuild_index(store)]
            /\ latest' = [paths |-> _rebuild_latest(store)]
            /\ store' = store
  /\ UNCHANGED << runnerVars, idx, report, localVars, netlog, steps, hist, subVars >>

-----------------------------------------------------------------------------
(* The orchestrator specification                                          *)

\* main(): sys.exit(main()); an exception that leaves run() leaves main()
\* too, and the interpreter exits with status 1
MainExit ==
  /\ pc \in {"raised", "returned"}
  /\ exit_code' = [status |-> IF pc = "raised" THEN 1
                               ELSE IF report.processed # << >> \/ report.skipped # << >> THEN 0
                               ELSE 1]
  /\ pc' = "exited"
  /\ UNCHANGED << fsVars, runs, dry_run, summarizer, scrapers, idx, report,
                  localVars, netlog, steps, hist, subVars >>

IdleSub ==
  /\ http = [pc |-> "idle"]
  /\ summ = [pc |-> "idle"]
  /\ ft = [pc |-> "idle"]
  /\ wj = [pc |-> "idle"]
  /\ sc = [pc |-> "idle"]
  /\ ex = [pc |-> "idle"]

IdleRunner ==
  /\ runs = 0
  /\ exit_code = None
  /\ dry_run = FALSE
  /\ summarizer = None
  /\ scrapers = << >>
  /\ idx = 1
  /\ report = EmptyReport
  /\ pc = "idle"
  /\ raw = None
  /\ article_id = EmptyStr
  /\ entry_file = None
  /\ image_path = None
  /\ fulltext = None
  /\ ai_output = None
  /\ netlog = << >>
  /\ steps = << >>
  /\ hist = << >>

Init ==
  /\ store = { }
  /\ index = None
  /\ latest = None
  /\ IdleRunner
  /\ IdleSub

Next ==
  \/ \E j \in JournalArgs, d \in BOOLEAN : NewRunner(j, d)
  \/ BeginSource
  \/ EndLoop
  \/ \E page \in SciencePages \cup PolGeogPages : Scrape(page)
  \/ \E today \in TodayValues : ValidateDate(today)
  \/ Deduplicate
  \/ \E got \in BOOLEAN : DownloadImage(got)
  \/ \E web \in WebValues, boom \in BOOLEAN : FetchFulltext(web, boom)
  \/ \E responses \in PipelineResponses : Summarize(responses)
  \/ \E io \in {"ok", "OSError"} : Persist(io)
  \/ RebuildIndex
  \/ MainExit

Spec == Init /\ [][Next]_vars

-----------------------------------------------------------------------------
(* The HTTP helpers on their own: one call of _fetch or _http_get, one     *)
(* iteration of its loop per step, the server answering each attempt.      *)

\* the final status of a response (allow_redirects=True: redirects are
\* followed by the session and do not come back to the helper)
HttpStatuses == {200, 404, 429, 500, 503}

HttpBodies == { << >>, << "h" >> }

HttpOutcomes ==
  { [kind |-> "response", status |-> st, body |-> b] :
      st \in HttpStatuses, b \in HttpBodies }
  \cup { [kind |-> k, status |-> 0, body |-> << >>] :
           k \in RequestExceptions \ {"HTTPError"} }

HttpCall(helper) ==
  [helper |-> helper, pc |-> "loop", attempt |-> 1, log |-> << >>,
   sleeps |-> << >>, ret |-> None]

HttpStep(outcome) ==
  /\ http.pc = "loop"
  /\ http' = HttpIteration(http, outcome)
  /\ UNCHANGED << fsVars, runnerVars, idx, report, pc, localVars, netlog, steps,
                  hist, summ, ft, wj, sc, ex >>

InitHttp ==
  /\ store = { }
  /\ index = None
  /\ latest = None
  /\ wj = [pc |-> "idle"]
  /\ sc = [pc |-> "idle"]
  /\ ex = [pc |-> "idle"]
  /\ IdleRunner
  /\ http \in { HttpCall(helper) : helper \in HttpHelpers }
  /\ summ = [pc |-> "idle"]
  /\ ft = [pc |-> "idle"]

NextHttp == \E outcome \in HttpOutcomes : HttpStep(outcome)

SpecHttp == InitHttp /\ [][NextHttp]_vars

-----------------------------------------------------------------------------
(* BilingualSummarizer.summarize on its own: one invocation, the model     *)
(* answering the calls with responses[1], responses[2], ...                *)

BlankOutput ==
  JDict([title |-> JDict([zh |-> JStr(<< "t" >>), en |-> JStr(<< "t" >>)]),
         summary |-> JDict([zh |-> JStr(<< " " >>), en |-> JStr(<< "s" >>)])])

NoSummaryOutput ==
  JDict([title |-> JDict([zh |-> JStr(<< "t" >>), en |-> JStr(<< "t" >>)])])

NoEnOutput ==
  JDict([title |-> JDict([zh |-> JStr(<< "t" >>), en |-> JStr(<< "t" >>)]),
         summary |-> JDict([zh |-> JStr(<< "s" >>)])])

NonStrOutput ==
  JDict([title |-> JDict([zh |-> JStr(<< "t" >>), en |-> JStr(<< "t" >>)]),
         summary |-> JDict([zh |-> JList, en |-> JStr(<< "s" >>)])])

TitleStrOutput ==
  JDict([title |-> JStr(<< "t" >>),
         summary |-> JDict([zh |-> JStr(<< "s" >>), en |-> JStr(<< "s" >>)])])

ModelResponses ==
  { [kind |-> "raise", data |-> None],
    [kind |-> "empty", data |-> None],
    [kind |-> "text", data |-> None] }
  \cup { [kind |-> "text", data |-> d] :
           d \in { ValidOutput, BlankOutput, NoSummaryOutput, NoEnOutput,
                   NonStrOutput, TitleStrOutput, JList } }

SummarizeCall ==
  /\ summ.pc = "call"
  /\ LET r == summarize(summ.responses)
     IN  summ' = [pc |-> "done", responses |-> summ.responses, ret |-> r.ret,
                  calls |-> r.calls, raised |-> r.raised]
  /\ UNCHANGED << fsVars, runnerVars, idx, report, pc, localVars, netlog, steps,
                  hist, http, ft, wj, sc, ex >>

InitSummarize ==
  /\ store = { }
  /\ index = None
  /\ latest = None
  /\ wj = [pc |-> "idle"]
  /\ sc = [pc |-> "idle"]
  /\ ex = [pc |-> "idle"]
  /\ IdleRunner
  /\ http = [pc |-> "idle"]
  /\ summ \in { [pc |-> "call", responses |-> r] :
                  r \in [SummarizeAttempts -> ModelResponses] }
  /\ ft = [pc |-> "idle"]

NextSummarize == SummarizeCall

SpecSummarize == InitSummarize /\ [][NextSummarize]_vars

-----------------------------------------------------------------------------
(* fetch_fulltext on its own: one call, on the URLs of a record and what   *)
(* the preprint server and the publisher serve.                            *)

ShortPage == [found |-> TRUE, text |-> Text(MIN_FULLTEXT_CHARS)]

GoodPage == [found |-> TRUE, text |-> Text(MIN_FULLTEXT_CHARS + 1)]

TeaserPage == [found |-> TRUE, text |-> Text(MIN_FULLTEXT_CHARS - 1)]

\* texts at and over the budget: no paragraph break; a break at 80% of the
\* budget and just after it, followed or preceded by whitespace
LongTexts ==
  { Text(MAX_FULLTEXT_CHARS),
    Text(MAX_FULLTEXT_CHARS + 1),
    LongText,
    [len |-> 70000, brk |-> 48000, wsb |-> 0, wsm |-> 1],
    [len |-> 70000, brk |-> 48001, wsb |-> 1, wsm |-> 0] }

FulltextWebs ==
  { [html |-> h, abs |-> a, pre |-> pr, art |-> ar] :
      h \in { None, GoodPage },
      a \in { None, TeaserPage },
      pr \in { None, TeaserPage, ShortPage, GoodPage },
      ar \in { None, [found |-> FALSE, text |-> Text(0)], GoodPage }
               \cup { [found |-> TRUE, text |-> t] : t \in LongTexts } }

FulltextCall ==
  /\ ft.pc = "call"
  /\ LET r == fetch_fulltext(ft.preprint_url, ft.article_url, ft.web)
     IN  ft' = [pc |-> "done", preprint_url |-> ft.preprint_url,
                article_url |-> ft.article_url, web |-> ft.web,
                ret |-> r.ret, tried |-> r.tried, gets |-> r.gets]
  /\ UNCHANGED << fsVars, runnerVars, idx, report, pc, localVars, netlog, steps,
                  hist, http, summ, wj, sc, ex >>

InitFulltext ==
  /\ store = { }
  /\ index = None
  /\ latest = None
  /\ wj = [pc |-> "idle"]
  /\ sc = [pc |-> "idle"]
  /\ ex = [pc |-> "idle"]
  /\ IdleRunner
  /\ http = [pc |-> "idle"]
  /\ summ = [pc |-> "idle"]
  /\ ft \in { [pc |-> "call", preprint_url |-> p, article_url |-> a, web |-> w] :
                p \in PreprintUrls, a \in ArticleUrls, w \in FulltextWebs }

NextFulltext == FulltextCall

SpecFulltext == InitFulltext /\ [][NextFulltext]_vars

-----------------------------------------------------------------------------
(* PipelineRunner._write_json on its own: one call, statement by           *)
(* statement, on a directory that holds the files of earlier calls.  A     *)
(* file is [path, doc, complete]: complete is FALSE while only a part of   *)
(* the document has reached the file.  The process may be stopped from     *)
(* outside between any two statements.                                     *)

\* Path.with_suffix without the change of suffix
with_suffix_same(path, suffix) == path

\* Path.with_suffix
with_suffix(path, suffix) == [path EXCEPT !.suffix = suffix]

WritePaths ==
  { [name |-> "articles/2025/06/science-2025-06-20", suffix |-> ".json"],
    [name |-> "index", suffix |-> ".json"] }

WrittenBefore ==
  { [path |-> [name |-> "articles/2025/06/science-2025-06-20", suffix |-> ".json"],
     doc |-> "old", complete |-> TRUE],
    [path |-> [name |-> "index", suffix |-> ".json"],
     doc |-> "old", complete |-> TRUE],
    [path |-> [name |-> "articles/2025/06/nature-2025-06-19", suffix |-> ".json"],
     doc |-> "old", complete |-> TRUE],
    [path |-> [name |-> "index", suffix |-> ".tmp"],
     doc |-> "old", complete |-> FALSE] }

Unlink(files, path) == { f \in files : f.path # path }

\* ensure_dir(path.parent); tmp = path.with_suffix(".tmp")
WjEnsureDir(ok) ==
  /\ wj.pc = "start"
  /\ wj' = IF ok THEN [wj EXCEPT !.pc = "open", !.tmp = with_suffix(wj.path, ".tmp")]
           ELSE [wj EXCEPT !.pc = "raised"]

\* tmp.write_text(...): the file is opened for writing
WjOpen(ok) ==
  /\ wj.pc = "open"
  /\ wj' = IF ok
             THEN [wj EXCEPT !.pc = "write",
                             !.files = Unlink(@, wj.tmp) \cup
                                { [path |-> wj.tmp, doc |-> wj.data, complete |-> FALSE] }]
             ELSE [wj EXCEPT !.pc = "except"]

\* tmp.write_text(...): the text is written and the file closed
WjWrite(ok) ==
  /\ wj.pc = "write"
  /\ wj' = IF ok
             THEN [wj EXCEPT !.pc = "replace",
                             !.files = Unlink(@, wj.tmp) \cup
                                { [path |-> wj.tmp, doc |-> wj.data, complete |-> TRUE] }]
             ELSE [wj EXCEPT !.pc = "except"]

\* tmp.replace(path)
WjReplace(ok) ==
  /\ wj.pc = "replace"
  /\ wj' = IF ok
             THEN [wj EXCEPT !.pc = "returned",
                             !.files = Unlink(Unlink(@, wj.tmp), wj.path) \cup
                                { [g EXCEPT !.path = wj.path] :
                                  g \in { h \in wj.files : h.path = wj.tmp } }]
             ELSE [wj EXCEPT !.pc = "except"]

\* except OSError: tmp.unlink(missing_ok=True); raise
WjExcept ==
  /\ wj.pc = "except"
  /\ wj' = [wj EXCEPT !.pc = "raised", !.files = Unlink(@, wj.tmp)]

\* the process is stopped from outside
WjKill ==
  /\ wj.pc \in {"start", "open", "write", "replace", "except"}
  /\ wj' = [wj EXCEPT !.pc = "killed"]

WjUnchanged ==
  UNCHANGED << fsVars, runnerVars, idx, report, pc, localVars, netlog, steps,
               hist, http, summ, ft, sc, ex >>

InitWrite ==
  /\ store = { }
  /\ index = None
  /\ latest = None
  /\ IdleRunner
  /\ http = [pc |-> "idle"]
  /\ summ = [pc |-> "idle"]
  /\ ft = [pc |-> "idle"]
  /\ sc = [pc |-> "idle"]
  /\ ex = [pc |-> "idle"]
  /\ wj \in { [pc |-> "start", path |-> p, tmp |-> None, data |-> "new",
               files |-> fs, before |-> fs] :
               p \in WritePaths, fs \in SUBSET WrittenBefore }

NextWrite ==
  \/ \E ok \in BOOLEAN : WjEnsureDir(ok) /\ WjUnchanged
  \/ \E ok \in BOOLEAN : WjOpen(ok) /\ WjUnchanged
  \/ \E ok \in BOOLEAN : WjWrite(ok) /\ WjUnchanged
  \/ \E ok \in BOOLEAN : WjReplace(ok) /\ WjUnchanged
  \/ WjExcept /\ WjUnchanged
  \/ WjKill /\ WjUnchanged

SpecWrite == InitWrite /\ [][NextWrite]_vars

-----------------------------------------------------------------------------
(* The adapters on their own: one call of scrape_current_issue or          *)
(* scrape_issue of one adapter, on what the publisher serves.              *)

\* scrape_issue(volume, issue): one listing URL for every adapter
scrape_issue(cls, page) == _scrape_toc_page(cls, page.toc = "ok", page)

ScrapeMethods == {"scrape_current_issue", "scrape_issue"}

AdapterPages ==
  { [toc |-> t, toc2 |-> t2, date |-> d, cover |-> c, article |-> a, preprint |-> pr] :
      t \in {"ok", "fail"}, t2 \in {"ok", "fail"}, d \in {EmptyStr, D_ISO},
      c \in {"", COVER_URL}, a \in {"none", "ok", "fail"}, pr \in {"", ARXIV_URL} }

ScrapeCall ==
  /\ sc.pc = "call"
  /\ LET r == IF sc.method = "scrape_issue"
                THEN scrape_issue(sc.cls, sc.page)
                ELSE scrape_current_issue(sc.cls, sc.page)
     IN  sc' = [pc |-> "done", cls |-> sc.cls, method |-> sc.method,
                page |-> sc.page, ret |-> r.ret, calls |-> r.calls]
  /\ UNCHANGED << fsVars, runnerVars, idx, report, pc, localVars, netlog, steps,
                  hist, http, summ, ft, wj, ex >>

InitScrape ==
  /\ store = { }
  /\ index = None
  /\ latest = None
  /\ IdleRunner
  /\ http = [pc |-> "idle"]
  /\ summ = [pc |-> "idle"]
  /\ ft = [pc |-> "idle"]
  /\ wj = [pc |-> "idle"]
  /\ ex = [pc |-> "idle"]
  /\ sc \in { [pc |-> "call", cls |-> cls, method |-> m, page |-> page] :
                cls \in ScraperClasses, m \in ScrapeMethods, page \in AdapterPages }

NextScrape == ScrapeCall

SpecScrape == InitScrape /\ [][NextScrape]_vars

-----------------------------------------------------------------------------
(* The field-extraction helpers on their own: one call of                  *)
(* ScienceScraper._extract_cover_story or NatureScraper._extract_cover_image *)
(* on a parsed listing page.  A page is what the selectors of the helper   *)
(* find in it: select_one gives None or the first matching element.        *)

\* " ".join(text.split()).strip(): runs of whitespace become one blank
RECURSIVE CleanFrom(_, _, _)
CleanFrom(s, started, gap) ==
  IF s = << >> THEN << >>
  ELSE IF Head(s) \in Whitespace THEN CleanFrom(Tail(s), started, started)
  ELSE (IF gap THEN << " " >> ELSE << >>) \o << Head(s) >>
         \o CleanFrom(Tail(s), TRUE, FALSE)

_clean_text(text) ==
  IF text = << >> THEN << >> ELSE CleanFrom(text, FALSE, FALSE)

\* sub in s
Contains(s, sub) ==
  \E i \in 0..(Len(s) - Len(sub)) : SubSeq(s, i + 1, i + Len(sub)) = sub

\* urls of the pages that start with "http"
HttpUrls ==
  { "https://media.springernature.com/w580/cover.jpg",
    "https://www.nature.com/nature-cms/uploads/cover.jpg",
    "https://www.nature.com/lazy/cover.jpg" }

\* BaseScraper._abs_url on an absolute url, on "" and on a path that starts
\* with one "/": urljoin(base, "") is base, urljoin(host, "/p") is host + "/p"
_abs_url(base, relative) ==
  IF relative \in HttpUrls THEN relative
  ELSE IF relative = "" THEN base
  ELSE base \o relative

SCIENCE_BASE_URL == "https://www.science.org"

NATURE_BASE_URL == "https://www.nature.com"

\* "cover" in text and ("image" in text or "photo" in text or "illustration" in text)
MentionsCover(text) ==
  LET t == Lower(text)
  IN  /\ Contains(t, << "c", "o", "v", "e", "r" >>)
      /\ \/ Contains(t, << "i", "m", "a", "g", "e" >>)
         \/ Contains(t, << "p", "h", "o", "t", "o" >>)
         \/ Contains(t, << "i", "l", "l", "u", "s", "t", "r", "a", "t", "i", "o", "n" >>)

EmptyStory ==
  [cover_description |-> EmptyStr, article_url |-> "", article_title |-> EmptyStr]

\* the link found in an element: url and title of the article
WithLink(r, link, base) ==
  [r EXCEPT !.article_url = _abs_url(base, link.href),
            !.article_title = _clean_text(link.text)]

\* the fallback of _extract_cover_story: the first paragraph that mentions
\* the cover gives the description and, if it holds one, the link; break
ScanParagraphs(r, paras) ==
  LET hits == { i \in 1..Len(paras) : MentionsCover(paras[i].text) }
  IN  IF hits = { } THEN r
      ELSE LET p == paras[CHOOSE i \in hits : \A j \in hits : i <= j]
               d == [r EXCEPT !.cover_description = _clean_text(p.text)]
           IN  IF p.link # None THEN WithLink(d, p.link, SCIENCE_BASE_URL) ELSE d

\* ScienceScraper._extract_cover_story(soup, raw) on an empty raw
Science_extract_cover_story(soup) ==
  LET blk == soup.cover_block
      r1 == IF blk # None
              THEN [EmptyStory EXCEPT !.cover_description = _clean_text(blk.text)]
              ELSE EmptyStory
  IN  IF blk # None /\ blk.link # None
        THEN [raw |-> WithLink(r1, blk.link, SCIENCE_BASE_URL),
              consulted |-> << "cover_block" >>]
        ELSE [raw |-> ScanParagraphs(r1, soup.p),
              consulted |-> << "cover_block", "p" >>]

EmptyImage == [cover_image_url |-> "", cover_image_credit |-> EmptyStr]

\* NatureScraper._extract_cover_image(soup, raw) on an empty raw
Nature_extract_cover_image(soup) ==
  LET img == IF soup.cdn # None THEN soup.cdn
             ELSE IF soup.cms # None THEN soup.cms
             ELSE soup.wrapper
      consulted == IF soup.cdn # None THEN << "cdn" >>
                   ELSE IF soup.cms # None THEN << "cdn", "cms" >>
                   ELSE << "cdn", "cms", "wrapper" >>
  IN  IF img = None THEN [raw |-> EmptyImage, consulted |-> consulted]
      ELSE LET src == IF img.src # "" THEN img.src ELSE img.data_src
               credit == IF img.figcaption # None THEN _clean_text(img.figcaption.text)
                         ELSE _clean_text(img.alt)
           IN  [raw |-> [cover_image_url |-> _abs_url(NATURE_BASE_URL, src),
                         cover_image_credit |-> credit],
                consulted |-> consulted]

ExtractHelpers == {"Science._extract_cover_story", "Nature._extract_cover_image"}

\* at most this many <p> elements in a listing page
MaxParagraphs == 2

BlockTexts == { << >>, << " " >>, << "B", "l", "u", "r", "b" >> }

ParagraphTexts ==
  { << "N", "e", "w", "s" >>,
    << "C", "o", "v", "e", "r", " ", " ", "p", "h", "o", "t", "o" >> }

StoryLinks ==
  { [href |-> "/doi/10.1126/a", text |-> << "A" >>],
    [href |-> "/doi/10.1126/b", text |-> << " ", "B" >>] }

Paragraphs == [text : ParagraphTexts, link : {None} \cup StoryLinks]

ParagraphLists ==
  UNION { [1..n -> Paragraphs] : n \in 0..MaxParagraphs }

ScienceListings ==
  [cover_block : {None} \cup [text : BlockTexts, link : {None} \cup StoryLinks],
   p : ParagraphLists]

Credits == { << >>, << "A", "l", "t" >> }

\* the figcaption of the figure around the img, None without one
Captions == { None, [text |-> << " " >>], [text |-> << "C", "a", "p" >>] }

\* img elements by the selector that finds them: the first two selectors
\* match on src, the wrapper selector matches an img with any attributes
CdnImgs ==
  [src : {"https://media.springernature.com/w580/cover.jpg"}, data_src : {""},
   alt : Credits, figcaption : Captions]

CmsImgs ==
  [src : {"https://www.nature.com/nature-cms/uploads/cover.jpg"}, data_src : {""},
   alt : Credits, figcaption : {None}]

WrapperImgs ==
  [src : {"", "/lazy/placeholder.gif"},
   data_src : {"", "https://www.nature.com/lazy/cover.jpg"},
   alt : Credits, figcaption : {None}]

NatureListings ==
  [cdn : {None} \cup CdnImgs, cms : {None} \cup CmsImgs, wrapper : {None} \cup WrapperImgs]

ExtractCall ==
  /\ ex.pc = "call"
  /\ LET r == IF ex.helper = "Science._extract_cover_story"
                THEN Science_extract_cover_story(ex.soup)
                ELSE Nature_extract_cover_image(ex.soup)
     IN  ex' = [pc |-> "done", helper |-> ex.helper, soup |-> ex.soup,
                raw |-> r.raw, consulted |-> r.consulted]
  /\ UNCHANGED << fsVars, runnerVars, idx, report, pc, localVars, netlog, steps,
                  hist, http, summ, ft, wj, sc >>

\* the author list of _enrich_from_article_page.  tags is what
\* soup.select(...) finds on the article page, in document order; a tag is
\* a <meta name="citation_author"> with its content or an element with its
\* text.

\* Science, Nature: [self._clean_text(a.get_text()) for a in author_tags]
AuthorsOfEach(tags) == [i \in 1..Len(tags) |-> _clean_text(tags[i].text)]

\* Cell: content of a meta tag, cleaned text of any other tag
AuthorsOfCell(tags) ==
  [i \in 1..Len(tags) |->
     IF tags[i].name = "meta" THEN tags[i].text ELSE _clean_text(tags[i].text)]

\* Political Geography, International Organization, ASR: content of a meta
\* tag; the cleaned text of another tag if it is not empty and not yet there
RECURSIVE AuthorsUnique(_, _)
AuthorsUnique(tags, authors) ==
  IF tags = << >> THEN authors
  ELSE LET tag == Head(tags)
           name == _clean_text(tag.text)
       IN  AuthorsUnique(Tail(tags),
             IF tag.name = "meta" THEN Append(authors, tag.text)
             ELSE IF name # EmptyStr /\ name \notin { authors[i] : i \in 1..Len(authors) }
               THEN Append(authors, name)
               ELSE authors)

\* the adapters whose author selector also matches meta[name='citation_author']
SelectsMeta(cls) == cls \notin {"ScienceScraper", "NatureScraper"}

\* raw.article_authors after the author block; [] is the default
article_authors(cls, tags) ==
  IF tags = << >> THEN << >>
  ELSE IF cls \in {"ScienceScraper", "NatureScraper"} THEN AuthorsOfEach(tags)
  ELSE IF cls = "CellScraper" THEN AuthorsOfCell(tags)
  ELSE AuthorsUnique(tags, << >>)

\* at most this many author tags on an article page
MaxAuthorTags == 3

AuthorTexts == { << >>, << "A" >>, << " ", "A" >>, << "B" >> }

AuthorTags(cls) ==
  [name : IF SelectsMeta(cls) THEN {"meta", "a"} ELSE {"a"}, text : AuthorTexts]

AuthorTagLists(cls) == UNION { [1..n -> AuthorTags(cls)] : n \in 0..MaxAuthorTags }

AuthorsCall ==
  /\ ex.pc = "authors"
  /\ ex' = [pc |-> "listed", cls |-> ex.cls, tags |-> ex.tags,
            authors |-> article_authors(ex.cls, ex.tags)]
  /\ UNCHANGED << fsVars, runnerVars, idx, report, pc, localVars, netlog, steps,
                  hist, http, summ, ft, wj, sc >>

InitExtract ==
  /\ store = { }
  /\ index = None
  /\ latest = None
  /\ IdleRunner
  /\ http = [pc |-> "idle"]
  /\ summ = [pc |-> "idle"]
  /\ ft = [pc |-> "idle"]
  /\ wj = [pc |-> "idle"]
  /\ sc = [pc |-> "idle"]
  /\ ex \in { [pc |-> "call", helper |-> "Science._extract_cover_story", soup |-> s] :
                s \in ScienceListings }
            \cup
            { [pc |-> "call", helper |-> "Nature._extract_cover_image", soup |-> s] :
                s \in NatureListings }
            \cup
            UNION { { [pc |-> "authors", cls |-> cls, tags |-> t] :
                        t \in AuthorTagLists(cls) } : cls \in ScraperClasses }

NextExtract == ExtractCall \/ AuthorsCall

SpecExtract == InitExtract /\ [][NextExtract]_vars

-----------------------------------------------------------------------------
(* Termination: the loops of the program under the scheduling of the code. *)
(* The program is one thread: a step that can be taken is taken, and a     *)
(* network call that is made returns or fails (timeout=30 on every GET).   *)
(* The run is followed from the invocation; the retry loop of _fetch and   *)
(* _http_get and the loop of summarize are followed from a call of each.   *)

InitTermination == Init \/ InitHttp \/ InitSummarize

NextTermination ==
  \/ (http.pc = "idle" /\ summ.pc = "idle" /\ Next)
  \/ NextHttp
  \/ NextSummarize

\* step 2 of _process_scraper has no guard and no input: it is the only step
\* from pc = "dedup" and it leaves for "loop" (skipped) or "image"
DeduplicateStep == pc = "dedup" /\ pc' \in {"loop", "image"}

\* the thread takes the step it is at: weak fairness on every step of run()
\* and _process_scraper, whatever the network answers; main() may or may not
\* be invoked again
RunFairness ==
  /\ WF_<< pc, idx >>(BeginSource)
  /\ WF_<< pc, idx >>(EndLoop)
  /\ WF_<< pc, idx >>(\E page \in SciencePages \cup PolGeogPages : Scrape(page))
  /\ WF_<< pc, idx >>(\E today \in TodayValues : ValidateDate(today))
  /\ WF_pc(DeduplicateStep)
  /\ WF_<< pc, idx >>(\E got \in BOOLEAN : DownloadImage(got))
  /\ WF_<< pc, idx >>(\E web \in WebValues, boom \in BOOLEAN : FetchFulltext(web, boom))
  /\ WF_<< pc, idx >>(\E responses \in PipelineResponses : Summarize(responses))
  /\ WF_<< pc, idx >>(\E io \in {"ok", "OSError"} : Persist(io))
  /\ WF_<< pc, idx >>(RebuildIndex)

\* every iteration of the retry loop changes http.pc or http.attempt, and the
\* call of summarize changes summ.pc
SpecTermination ==
  /\ InitTermination
  /\ [][NextTermination]_vars
  /\ RunFairness
  /\ WF_<< http.pc, http.attempt >>(NextHttp)
  /\ WF_(summ.pc)(NextSummarize)

-----------------------------------------------------------------------------
(* Properties                                                              *)

Range(seq) == { seq[i] : i \in DOMAIN seq }

\* the loop of run() has finished the handling of a source and has not yet
\* begun the next: netlog and steps are those of that source
Handled == pc \in {"loop", "index"} /\ hist # << >>

Last == hist[Len(hist)]

Failing(e) == e.outcome \in {"absent", "exception"}

Blank(date) == \A i \in DOMAIN date : date[i] \in Whitespace

EmptySummaries(entry) == entry.summary.zh = EmptyStr /\ entry.summary.en = EmptyStr

ScrapeCalls == {"listing", "article"}

\* the outcomes of the sources handled so far, in the order of the list
HandledInOrder ==
  /\ Len(hist) = idx - 1
  /\ Len(hist) <= Len(scrapers)
  /\ \A i \in DOMAIN hist : hist[i].cls = scrapers[i]

\* the error entries are the failing sources, one each, in order
OneErrorPerFailure ==
  LET failed == SelectSeq(hist, Failing)
  IN  /\ Len(report.errors) = Len(failed)
      /\ \A i \in DOMAIN failed :
           report.errors[i].journal = JOURNAL_NAME(failed[i].cls)

\* processed and skipped hold the sources that ended so, and no other
NothingFromFailures ==
  LET done == SelectSeq(hist, LAMBDA e : e.outcome = "processed")
      skip == SelectSeq(hist, LAMBDA e : e.outcome = "skipped")
  IN  /\ report.processed = [i \in DOMAIN done |-> done[i].id]
      /\ report.skipped = [i \in DOMAIN skip |-> skip[i].id]

\* the step in which a source fails changes nothing a later source reads
FailureStep ==
  (Len(hist') = Len(hist) + 1 /\ Failing(hist'[Len(hist')]))
    => /\ store' = store
       /\ UNCHANGED runnerVars
       /\ raw' = None /\ article_id' = EmptyStr /\ entry_file' = None
       /\ image_path' = None /\ fulltext' = None /\ ai_output' = None
       /\ pc' = "loop" /\ idx' = idx + 1

\* C1: fault isolation in run(): a source whose adapter returns absent or
\* whose sequence raises gets exactly one error entry naming it and nothing in
\* processed or skipped; the loop goes on to the sources after it (run() is
\* left only after every source of the list has been handled), and the failing
\* step leaves the store, the runner and the per-source locals as a source
\* that had not failed would find them.
C1_FaultIsolation ==
  /\ [](HandledInOrder /\ OneErrorPerFailure /\ NothingFromFailures)
  /\ [](pc \in {"index", "raised"} => Len(hist) = Len(scrapers))
  /\ [][FailureStep]_vars

\* a source raised, and the source after it was processed
C1_Witness ==
  /\ Len(hist) = 2
  /\ hist[1].outcome = "exception"
  /\ hist[2].outcome = "processed"
  /\ Len(report.errors) = 1

\* C2: every call of run() completes: it is never left by an exception, so
\* the index rebuild is followed by the latest rebuild and the return of the
\* report.
C2_RunCompletes == pc # "raised"

\* C3: deduplication: the store never holds two records for one identity.
C3_OneRecordPerIdentity ==
  \A f \in store, g \in store : f.entry.id = g.entry.id => f.path = g.path

\* C4 as stated: a source reported under skipped made zero network calls.
C4_ZeroNetworkCalls ==
  (Handled /\ Last.outcome = "skipped") => netlog = << >>

\* C4: a source whose record file is already in the store is reported under
\* skipped after the scrape (listing fetch and, if any, article fetch) and the
\* date validation, and makes no network call after the scrape: no image
\* download, no full-text fetch, no summarization call.
C4_NoCallsAfterScrape ==
  (Handled /\ Last.outcome = "skipped")
    => /\ report.skipped # << >>
       /\ report.skipped[Len(report.skipped)] = Last.id
       /\ \E f \in store : f.entry.id = Last.id
       /\ steps = << "SCRAPE", "VALIDATE_DATE", "DEDUPLICATE" >>
       /\ netlog # << >>
       /\ netlog[1] = "listing"
       /\ Range(netlog) \subseteq ScrapeCalls

\* a skipped source whose scrape fetched the listing and the article page
C4_Witness ==
  /\ Handled
  /\ Last.outcome = "skipped"
  /\ "article" \in Range(netlog)

\* C5: in a non-dry run a source that reaches the summarization step is
\* persisted (with empty summaries when the summarizer yields nothing) and
\* reported under processed, not as an error.
C5_PersistedWithoutSummary ==
  (Handled /\ ~dry_run /\ "SUMMARIZE" \in Range(steps))
    => /\ Last.outcome = "processed"
       /\ \E f \in store : f.entry.id = Last.id

\* the n-th answer of the model is schema-valid
ValidAnswer(responses, n) ==
  /\ responses[n].kind = "text"
  /\ responses[n].data # None
  /\ _validate_output(responses[n].data)

\* C6: summarize makes at most two model calls, stops at the first call
\* that yields schema-valid output and returns it, and when neither call does
\* (invalid content, unparsable JSON, empty content, an exception of the call)
\* it returns None and does not raise.
C6_SummarizeBounded ==
  summ.pc = "done"
    => /\ summ.calls <= 2
       /\ ~summ.raised
       /\ IF \E n \in 1..2 : ValidAnswer(summ.responses, n)
            THEN LET first == CHOOSE n \in 1..2 :
                                /\ ValidAnswer(summ.responses, n)
                                /\ \A m \in 1..(n - 1) : ~ValidAnswer(summ.responses, m)
                 IN  /\ summ.calls = first
                     /\ summ.ret = summ.responses[first].data
            ELSE /\ summ.calls = 2
                 /\ summ.ret = None

\* the first call raised and the retry gave valid output
C6_Witness ==
  /\ summ.pc = "done"
  /\ summ.responses[1].kind = "raise"
  /\ summ.calls = 2
  /\ summ.ret = ValidOutput

\* C7: in a dry run the summarizer is never built or called, and a source
\* that was scraped and is not skipped as already persisted has its record
\* written with empty summaries and is reported under processed (the one
\* other end is the OSError of the write itself, reported as an error).
C7_DryRun ==
  (dry_run /\ pc # "idle")
    => /\ summarizer = None
       /\ ai_output = None
       /\ "SUMMARIZE" \notin Range(steps)
       /\ "model" \notin Range(netlog)
       /\ (Handled /\ "VALIDATE_DATE" \in Range(steps) /\ Last.outcome # "skipped")
            => \/ /\ Last.outcome = "processed"
                  /\ report.processed # << >>
                  /\ report.processed[Len(report.processed)] = Last.id
                  /\ \E f \in store : f.entry.id = Last.id /\ EmptySummaries(f.entry)
               \/ /\ Last.outcome = "exception"
                  /\ report.errors[Len(report.errors)].error = "OSError"

\* a dry run wrote the record of a source
C7_Witness ==
  /\ dry_run
  /\ Handled
  /\ Last.outcome = "processed"
  /\ \E f \in store : f.entry.id = Last.id /\ EmptySummaries(f.entry)

\* the date validation of a record: an empty or whitespace-only date becomes
\* today's date, any other date stays, and no error is reported
ValidateStep ==
  pc = "validate"
    => /\ pc' = "dedup"
       /\ report' = report
       /\ raw'.date = IF Blank(raw.date) THEN D_TODAY ELSE raw.date

\* C8: an empty or whitespace-only date is replaced by the current UTC date
\* (YYYY-MM-DD) before the identity is computed, the source goes on to the
\* remaining steps without an error entry, and no record reaches
\* deduplication or the store with an empty date.
C8_DateFallback ==
  /\ [](pc \in {"dedup", "image", "fulltext", "summarize", "persist"}
          => ~Blank(raw.date))
  /\ [](pc \in {"image", "fulltext", "summarize", "persist"}
          => article_id = generate_article_id(raw.journal, raw.date))
  /\ [](\A f \in store : ~Blank(f.entry.date))
  /\ [](strptime(D_TODAY).ok /\ Len(D_TODAY) = 10)
  /\ [][ValidateStep]_vars

\* a record scraped with an empty or whitespace-only date is in the store
\* under today's date
C8_Witness ==
  \E f \in store : f.entry.date = D_TODAY /\ f.path.dir = << 2025, 6 >>

\* the attempt failed: a transport error, a timeout or a non-2xx status
FailedAttempt(outcome) ==
  outcome.kind # "response" \/ outcome.status \notin 200..299

\* the delay of a helper
DelayOf(helper) == IF helper = "_fetch" THEN FETCH_DELAY ELSE HTTP_GET_SLEEP

C10_DispatchOrder ==
  ft.pc = "done"
    => LET p == _try_preprint(ft.preprint_url, ft.web)
           o == _try_open_access(ft.article_url, ft.web)
           pre == ft.preprint_url # ""
           preYields == pre /\ Truthy(p.ret)
           oa == ~preYields /\ ft.article_url # ""
           oaYields == oa /\ Truthy(o.ret)
       IN  /\ ft.tried = (IF pre THEN << "preprint" >> ELSE << >>)
                           \o (IF oa THEN << "open_access" >> ELSE << >>)
           /\ ft.gets = (IF pre THEN p.gets ELSE << >>)
                          \o (IF oa THEN o.gets ELSE << >>)
           /\ preYields => ft.ret = _truncate(p.ret)
           /\ (~preYields /\ oaYields) => ft.ret = _truncate(o.ret)
           /\ (~preYields /\ ~oaYields) => ft.ret = None

\* the preprint step made its GET and yielded nothing, the open-access step
\* gave the text
C10_Witness ==
  /\ ft.pc = "done"
  /\ ft.tried = << "preprint", "open_access" >>
  /\ Len(ft.gets) >= 2
  /\ ft.ret # None

\* C11 as stated: no text of fewer than 500 characters is returned as a hit
\* by the cascade, whatever the provider.
C11_NoShortHit ==
  (ft.pc = "done" /\ ft.ret # None) => ft.ret.len >= 500

\* C11: the fetchers of the arXiv HTML rendering, bioRxiv/medRxiv,
\* ScienceDirect and Cambridge return a text only when it is longer than 500
\* characters, a shorter one being a non-hit that lets the cascade go on; the
\* arXiv abstract-page fallback and the SSRN fetcher return any non-empty
\* text, so a hit of 500 characters or fewer comes from one of these two.
C11_ThresholdedFetchers ==
  ft.pc = "done"
    => /\ (ft.ret # None /\ ft.ret.len <= 500)
            => /\ ft.gets # << >>
               /\ ft.gets[Len(ft.gets)] \in {"arxiv.org/abs", "ssrn.com"}
       /\ (ft.ret # None /\ ft.gets[Len(ft.gets)] \in
             {"arxiv.org/html", "biorxiv.org/full", "sciencedirect.com", "cambridge.org"})
            => ft.ret.len > 500
       /\ ft.ret # None => ft.ret.len > 0

\* bioRxiv served 500 characters, a non-hit, and the cascade went on to the
\* open-access fetcher, which gave the text
C11_Witness ==
  /\ ft.pc = "done"
  /\ ft.preprint_url \in BiorxivUrls
  /\ ft.web.pre = ShortPage
  /\ ft.gets = << "biorxiv.org/full", "sciencedirect.com" >>
  /\ ft.ret # None

\* C12: a source whose identity is not yet persisted goes through the full
\* sequence: in a non-dry run, once the full-text step was taken, the
\* sequence ends with the write of a record tagged "full-text" or
\* "abstract-only" and the source is reported under processed.
C12_FullSequence ==
  (Handled /\ ~dry_run /\ "FETCH_FULLTEXT" \in Range(steps))
    => /\ steps[Len(steps)] = "PERSIST"
       /\ Last.outcome \in {"processed", "exception"}
       /\ Last.outcome = "processed"
            => \E f \in store :
                 /\ f.entry.id = Last.id
                 /\ f.entry.summary_mode \in {"full-text", "abstract-only"}

\* the text the cascade hit, before truncation (None when there is none)
HitText ==
  LET p == _try_preprint(ft.preprint_url, ft.web)
      o == _try_open_access(ft.article_url, ft.web)
  IN  IF ft.preprint_url # "" /\ Truthy(p.ret) THEN p.ret
      ELSE IF ft.article_url # "" /\ Truthy(o.ret) THEN o.ret
      ELSE None

\* C13: a text returned by fetch_fulltext is at most MAX_FULLTEXT_CHARS
\* long; a text within the budget is returned unchanged; a longer one is cut
\* at its last paragraph break before the limit when that break lies beyond
\* 80% of the budget, otherwise at the limit (trailing whitespace of the cut
\* removed in both cases).
C13_Truncation ==
  (ft.pc = "done" /\ ft.ret # None)
    => /\ HitText # None
       /\ ft.ret.len <= 60000
       /\ HitText.len <= 60000 => ft.ret = HitText
       /\ HitText.len > 60000
            => IF HitText.brk > 48000
                 THEN ft.ret.len = HitText.brk - HitText.wsb
                 ELSE ft.ret.len = 60000 - HitText.wsm

\* a text of 70000 characters with a paragraph break at 59000 came back cut
\* at the break
C13_Witness ==
  /\ ft.pc = "done"
  /\ HitText = LongText
  /\ ft.ret = Text(59000)

\* C14: the exit status of the process is 0 exactly when at least one
\* source was reported processed or skipped in the run.
C14_ExitStatus ==
  pc = "exited"
    => (exit_code.status = 0 <=> (report.processed # << >> \/ report.skipped # << >>))

FinalName(path) == path.suffix = ".json"

\* the files under final names
Finals(files) == { f \in files : FinalName(f.path) }

\* C15: _write_json writes the document to a temporary file and renames
\* it: at every point, also after a failure or a stop from outside, every
\* file under a final name holds a complete document, and the files other
\* than the target are as they were; after a failure of the write or of the
\* rename the temporary file is gone, the OSError is raised and every final
\* file is as before; on return the target holds the new document.
C15_AtomicWrite ==
  wj.pc # "idle"
    => /\ \A f \in Finals(wj.files) : f.complete
       /\ \A f \in Finals(wj.files) : f.path # wj.path => f \in wj.before
       /\ \A f \in Finals(wj.before) :
            f.path # wj.path => f \in wj.files
       /\ \A f \in Finals(wj.files) :
            f.path = wj.path =>
              \/ f \in wj.before
              \/ f = [path |-> wj.path, doc |-> wj.data, complete |-> TRUE]
       /\ wj.pc = "raised"
            => /\ Finals(wj.files) = Finals(wj.before)
               /\ wj.tmp # None => \A f \in wj.files : f.path # wj.tmp
       /\ wj.pc = "returned"
            => /\ [path |-> wj.path, doc |-> wj.data, complete |-> TRUE] \in wj.files
               /\ \A f \in wj.files : f.path # wj.tmp

\* the write failed midway over an existing record: the temporary file is
\* gone, the error raised, and the old record still there
C15_Witness ==
  /\ wj.pc = "raised"
  /\ wj.tmp # None
  /\ wj.path.name = "articles/2025/06/science-2025-06-20"
  /\ [path |-> wj.path, doc |-> "old", complete |-> TRUE] \in wj.files
  /\ Cardinality(wj.before) = 4

\* a step of a run that writes the store adds one file, removes or changes
\* none, and reports the identity of that file under processed; a step that
\* reports under processed writes the store; a step that reports under
\* skipped or errors does not
WriteStep ==
  /\ store' # store
       => /\ store \subseteq store'
          /\ Cardinality(store' \ store) = 1
          /\ \E f \in store' \ store :
               report'.processed = Append(report.processed, f.entry.id)
  /\ Len(report'.processed) > Len(report.processed) => store' # store
  /\ Len(report'.skipped) > Len(report.skipped) => store' = store
  /\ Len(report'.errors) > Len(report.errors) => store' = store

\* C16: in a run the store is written once for each source reported under
\* processed and not at all for a source reported under skipped or errors,
\* and an identity is in processed only when its record file is in the store
\* under its final name.
C16_WriteOncePerProcessed ==
  /\ [](\A i \in DOMAIN report.processed :
          \E f \in store : f.entry.id = report.processed[i])
  /\ [][WriteStep]_vars

\* one run wrote two records and skipped nothing
C16_Witness ==
  /\ runs = 1
  /\ Len(report.processed) = 2
  /\ Cardinality(store) = 2

\* C17: an exception raised while a field is extracted does not escape the
\* adapter's scrape method: no source ends with an exception out of the
\* scrape step.
C17_ExtractionIsolated ==
  (Handled /\ Last.outcome = "exception") => steps # << "SCRAPE" >>

\* C18 as stated: for every adapter a failed fetch of the listing page
\* ends the scrape at once, with absent and no further fetch.
C18_AbsentAtOnce ==
  (sc.pc = "done" /\ sc.page.toc = "fail")
    => (sc.ret = None /\ sc.calls = << "listing" >>)

\* the call tries a second listing URL
HasFallback == sc.cls = "PolGeogScraper" /\ sc.method = "scrape_current_issue"

\* C18: when the fetch of the listing page fails, scrape_issue of every
\* adapter and scrape_current_issue of every adapter but PolGeogScraper
\* return absent with no further fetch; PolGeogScraper.scrape_current_issue
\* fetches its second listing URL and returns absent if that fails too.  No
\* article page is fetched and no record produced unless a listing fetch
\* succeeded.
C18_ListingFailure ==
  (sc.pc = "done" /\ sc.page.toc = "fail")
    => IF HasFallback
         THEN /\ Len(sc.calls) >= 2
              /\ sc.calls[1] = "listing"
              /\ sc.calls[2] = "listing"
              /\ sc.page.toc2 = "fail"
                   => (sc.ret = None /\ sc.calls = << "listing", "listing" >>)
         ELSE /\ sc.ret = None
              /\ sc.calls = << "listing" >>

\* the first listing URL of Political Geography failed and the second gave
\* a record
C18_Witness ==
  /\ sc.pc = "done"
  /\ HasFallback
  /\ sc.page.toc = "fail"
  /\ sc.ret # None
  /\ sc.calls = << "listing", "listing", "article" >>

\* the first non-empty value of a list of candidate values, else the default
FirstNonEmpty(cands, empty) ==
  LET hits == { i \in 1..Len(cands) : cands[i] # empty }
  IN  IF hits = { } THEN empty
      ELSE cands[CHOOSE i \in hits : \A j \in hits : i <= j]

\* what each candidate locator of a field yields on the page, in listed order
FirstMention(paras) ==
  LET hits == { i \in 1..Len(paras) : MentionsCover(paras[i].text) }
  IN  IF hits = { } THEN None
      ELSE paras[CHOOSE i \in hits : \A j \in hits : i <= j]

DescriptionCandidates(soup) ==
  << IF soup.cover_block = None THEN EmptyStr ELSE _clean_text(soup.cover_block.text),
     IF FirstMention(soup.p) = None THEN EmptyStr
     ELSE _clean_text(FirstMention(soup.p).text) >>

ImageCandidates(soup) ==
  << IF soup.cdn = None THEN "" ELSE soup.cdn.src,
     IF soup.cms = None THEN "" ELSE soup.cms.src,
     IF soup.wrapper = None THEN "" ELSE soup.wrapper.src,
     IF soup.wrapper = None THEN "" ELSE soup.wrapper.data_src >>

FoundImg(soup) ==
  IF soup.cdn # None THEN soup.cdn ELSE IF soup.cms # None THEN soup.cms ELSE soup.wrapper

CreditCandidates(soup) ==
  IF FoundImg(soup) = None THEN << >>
  ELSE << _clean_text(FoundImg(soup).alt),
          IF FoundImg(soup).figcaption = None THEN EmptyStr
          ELSE _clean_text(FoundImg(soup).figcaption.text) >>

\* C19: every field gets the value of the first candidate locator that
\* yields a non-empty value, a later candidate never replaces it, and a field
\* whose candidates all fail keeps its empty default.
C19_ShortCircuit ==
  /\ (ex.pc = "done" /\ ex.helper = "Science._extract_cover_story")
       => ex.raw.cover_description
            = FirstNonEmpty(DescriptionCandidates(ex.soup), EmptyStr)
  /\ (ex.pc = "done" /\ ex.helper = "Nature._extract_cover_image")
       => /\ LET first == FirstNonEmpty(ImageCandidates(ex.soup), "")
             IN  ex.raw.cover_image_url
                   = IF first = "" THEN "" ELSE _abs_url(NATURE_BASE_URL, first)
          /\ ex.raw.cover_image_credit
               = FirstNonEmpty(CreditCandidates(ex.soup), EmptyStr)

\* an index of the record files: one entry per persisted identity, each the
\* reference to its record, newest first
IndexOf(ix, files) ==
  /\ ix # None
  /\ \A f \in files :
       Cardinality({ i \in 1..Len(ix.articles) : ix.articles[i].id = f.entry.id }) = 1
  /\ \A i \in 1..Len(ix.articles) : \E f \in files : ix.articles[i] = IndexRef(f)
  /\ \A i \in 1..(Len(ix.articles) - 1) :
       ~StrLess(ix.articles[i].date, ix.articles[i + 1].date)

\* C20: the rebuild of a run leaves a catalogue index with exactly one entry
\* per persisted record identity, ordered newest first by date.
C20_IndexRebuilt ==
  [][(pc = "index" /\ pc' # "index") => IndexOf(index', store')]_vars

LatestOf(lt, files) ==
  /\ lt # None
  /\ DOMAIN lt.paths = { f.entry.journal : f \in files }
  /\ \A j \in DOMAIN lt.paths :
       \E f \in files :
         /\ f.entry.journal = j
         /\ f.path = lt.paths[j]
         /\ \A g \in files : g.entry.journal = j => ~StrLess(f.entry.date, g.entry.date)

\* C22: the rebuild of a run leaves a most-recent-per-source lookup that
\* maps every source with a persisted record to the path of its record with
\* the greatest date, and has no entry for the other sources.
C22_LatestRebuilt ==
  [][(pc = "index" /\ pc' # "index") => LatestOf(latest', store')]_vars

\* the steps of a source in the order of the design
StepOrder ==
  << "SCRAPE", "VALIDATE_DATE", "DEDUPLICATE", "DOWNLOAD_IMAGE", "FETCH_FULLTEXT",
     "SUMMARIZE", "ASSEMBLE", "PERSIST" >>

StepRank(s) == CHOOSE i \in 1..Len(StepOrder) : StepOrder[i] = s

\* the steps taken are steps of the design, each later in the order than the
\* step before it
InStepOrder(stp) ==
  /\ Range(stp) \subseteq Range(StepOrder)
  /\ \A i \in 1..(Len(stp) - 1) : StepRank(stp[i]) < StepRank(stp[i + 1])

InSource == pc \in {"scrape", "validate", "dedup", "image", "fulltext", "summarize", "persist"}

\* steps are only added to the steps of the source at hand; a source begins
\* when the loop is between two sources, with no step taken and no local set
SourceStep ==
  /\ steps' # steps
       => \/ InSource /\ Len(steps') > Len(steps) /\ SubSeq(steps', 1, Len(steps)) = steps
          \/ ~InSource /\ steps' = << >>
  /\ (~InSource /\ InSource')
       => /\ pc = "loop" /\ pc' = "scrape"
          /\ steps' = << >>
          /\ raw' = None /\ image_path' = None /\ fulltext' = None /\ ai_output' = None
          /\ UNCHANGED << idx, hist, report >>
  /\ (InSource /\ ~InSource')
       => pc' = "loop" /\ idx' = idx + 1 /\ Len(hist') = Len(hist) + 1

\* C23: the steps of a source are taken in the order SCRAPE, VALIDATE_DATE,
\* DEDUPLICATE, DOWNLOAD_IMAGE, FETCH_FULLTEXT, SUMMARIZE, ASSEMBLE, PERSIST,
\* none twice and none out of order; the sources are handled one after the
\* other in the order of the list, a source beginning only when the source
\* before it has its outcome, with nothing left of that source.
C23_StepOrder ==
  /\ [](InStepOrder(steps) /\ (steps # << >> => steps[1] = "SCRAPE"))
  /\ [](InSource => (idx <= Len(scrapers) /\ Len(hist) = idx - 1
                      /\ \A i \in DOMAIN hist : hist[i].cls = scrapers[i]))
  /\ [][SourceStep]_vars

\* the second source of a dry run went through every step but the two that a
\* dry run leaves out
C23_Witness ==
  /\ Handled
  /\ Len(hist) = 2
  /\ hist[1].outcome = "processed"
  /\ steps = << "SCRAPE", "VALIDATE_DATE", "DEDUPLICATE", "DOWNLOAD_IMAGE",
                "ASSEMBLE", "PERSIST" >>

\* the source at hand tried to download its cover image and did not get it
ImageFailed ==
  InSource /\ "DOWNLOAD_IMAGE" \in Range(steps) /\ image_path = None

\* C24: a source whose cover-image download failed goes on through the
\* remaining steps: it ends with the write of its record, and when it is
\* reported under processed the record has an empty cover-image URL and an
\* empty gallery.
C24_ImageFailureNonFatal ==
  [][(ImageFailed /\ pc' = "loop")
       => /\ steps'[Len(steps')] = "PERSIST"
          /\ hist'[Len(hist')].outcome = "processed"
               => \E f \in store' :
                    /\ f.entry.id = hist'[Len(hist')].id
                    /\ f.entry.coverImage.url = EmptyStr
                    /\ f.entry.images = << >>]_vars

\* the source at hand tried to fetch the full text and has none
FulltextFailed ==
  InSource /\ "FETCH_FULLTEXT" \in Range(steps) /\ ~Truthy(fulltext)

\* C25: the full-text step never ends the source and never adds to the
\* report, whatever the fetch does; a source left without full text goes on
\* to summarization and to the write of its record, and a record written for
\* it is tagged "abstract-only".
C25_FulltextFailureSwallowed ==
  [][/\ pc = "fulltext" => (pc' = "summarize" /\ report' = report)
     /\ (FulltextFailed /\ pc' = "loop")
          => /\ steps'[Len(steps')] = "PERSIST"
             /\ hist'[Len(hist')].outcome = "processed"
                  => \E f \in store' :
                       /\ f.entry.id = hist'[Len(hist')].id
                       /\ f.entry.summary_mode = "abstract-only"]_vars

\* the name a tag shows in the byline
BylineName(tag) == IF tag.name = "meta" THEN tag.text ELSE _clean_text(tag.text)

\* a is b with some elements left out
RECURSIVE IsSelectionOf(_, _)
IsSelectionOf(a, b) ==
  IF a = << >> THEN TRUE
  ELSE IF b = << >> THEN FALSE
  ELSE IF Head(a) = Head(b) THEN IsSelectionOf(Tail(a), Tail(b))
  ELSE IsSelectionOf(a, Tail(b))

\* C26: the author list of a record holds the names of the byline in
\* document order and holds no name twice.
C26_AuthorsUnique ==
  ex.pc = "listed"
    => /\ IsSelectionOf(ex.authors, [i \in 1..Len(ex.tags) |-> BylineName(ex.tags[i])])
       /\ \A i, j \in 1..Len(ex.authors) : ex.authors[i] = ex.authors[j] => i = j

\* a listing page of the call was fetched: the listing URL of the method or,
\* for scrape_current_issue of PolGeogScraper, the second one
ListingFetched == sc.page.toc = "ok" \/ (HasFallback /\ sc.page.toc2 = "ok")

\* C27: the Science, Nature and Cell adapters return absent whenever no
\* cover image URL was extracted; the Political Geography, International
\* Organization and ASR adapters return the record whenever a listing page
\* was fetched, with the cover image URL that was extracted or none; every
\* record returned names its source.
C27_CoverPolicy ==
  sc.pc = "done"
    => /\ (sc.cls \in {"ScienceScraper", "NatureScraper", "CellScraper"}
            /\ sc.page.cover = "") => sc.ret = None
       /\ (sc.cls \in {"PolGeogScraper", "IntOrgScraper", "ASRScraper"}
            /\ ListingFetched)
            => (sc.ret # None /\ sc.ret.cover_image_url = sc.page.cover)
       /\ sc.ret # None
            => (sc.ret.journal # EmptyStr /\ sc.ret.journal = JOURNAL_NAME(sc.cls))

\* the ASR adapter returned a record without a cover image
C27_Witness ==
  /\ sc.pc = "done"
  /\ sc.cls = "ASRScraper"
  /\ sc.page.cover = ""
  /\ sc.ret # None
  /\ sc.ret.article_url # ""

ReportSize == Len(report.processed) + Len(report.skipped) + Len(report.errors)

\* the list of the report that an outcome belongs to
ListOf(outcome) ==
  CASE outcome = "processed" -> "processed"
    [] outcome = "skipped" -> "skipped"
    [] OTHER -> "errors"

\* the report changes only by one entry appended to one list, in the step
\* that ends a source, or by the empty report of a new run
ReportStep ==
  report' # report
    => \/ pc \in {"idle", "exited"} /\ report' = EmptyReport
       \/ /\ InSource
          /\ Len(hist') = Len(hist) + 1
          /\ \E l \in {"processed", "skipped", "errors"} :
               /\ l = ListOf(hist'[Len(hist')].outcome)
               /\ Len(report'[l]) = Len(report[l]) + 1
               /\ SubSeq(report'[l], 1, Len(report[l])) = report[l]
               /\ \A k \in {"processed", "skipped", "errors"} \ {l} :
                    report'[k] = report[k]

\* C28: at every point of a run every source handled so far has exactly one
\* entry in exactly one of processed, skipped and errors, so that the three
\* lists together are as long as the sources handled, and as the list of
\* sources once the loop is over; entries are only appended, one per source
\* in the order of the sources, and never removed or moved.
C28_ReportPartition ==
  /\ [](ReportSize = Len(hist))
  /\ [](pc \in {"loop", "scrape", "validate", "dedup", "image", "fulltext",
                 "summarize", "persist"} => Len(hist) = idx - 1)
  /\ [](pc \in {"index", "raised", "returned", "exited"} => ReportSize = Len(scrapers))
  /\ [][ReportStep /\ (hist' # hist /\ ~(pc \in {"idle", "exited"}) => report' # report)]_vars

\* the loop of a run of two sources is over: one was skipped, one failed
C28_Witness ==
  /\ pc = "index"
  /\ Len(scrapers) = 2
  /\ Len(report.skipped) = 1
  /\ Len(report.errors) = 1

\* a string with a character that is not whitespace
NonBlankStr(x) == x.t = "str" /\ \E i \in 1..Len(x.v) : x.v[i] \notin Whitespace

\* the output schema: title and summary, each with zh and en
SchemaOk(d) ==
  /\ d.t = "dict"
  /\ \A key \in {"title", "summary"} :
       /\ key \in DOMAIN d.v
       /\ d.v[key].t = "dict"
       /\ \A lang \in {"zh", "en"} :
            lang \in DOMAIN d.v[key].v /\ NonBlankStr(d.v[key].v[lang])

\* C29: a value returned by summarize that is not None is a mapping with the
\* keys title and summary, each a mapping whose zh and en are strings with a
\* character that is not whitespace; an answer of the model that is not so
\* is never the value returned.
C29_SchemaValid ==
  summ.pc = "done"
    => /\ summ.ret # None => SchemaOk(summ.ret)
       /\ \A n \in 1..summ.calls :
            (summ.responses[n].data # None /\ ~SchemaOk(summ.responses[n].data))
              => summ.ret # summ.responses[n].data

\* the first answer had a whitespace-only summary and the second one was
\* returned
C29_Witness ==
  /\ summ.pc = "done"
  /\ summ.responses[1].kind = "text"
  /\ summ.responses[1].data = BlankOutput
  /\ summ.calls = 2
  /\ summ.ret # None

\* run() is executing
Running == pc \notin {"idle", "exited", "raised", "returned"}

\* the model calls made for the source at hand
ModelCalls == { i \in DOMAIN netlog : netlog[i] = "model" }

\* within a run the loop only moves forward: the index of the source at hand
\* never decreases and the outcomes recorded stay as they are
NoRevisit ==
  runs' = runs
    => /\ idx' >= idx
       /\ scrapers' = scrapers
       /\ Len(hist') >= Len(hist)
       /\ SubSeq(hist', 1, Len(hist)) = hist

\* C30: a run that has begun is eventually left (run() returns or raises);
\* a call of _fetch or _http_get eventually returns, after at most 2
\* attempts; a call of summarize eventually returns, after at most 2 model
\* calls, and at most 2 model calls are made for a source; every source has
\* at most one outcome, recorded when the loop moves past it, and the loop
\* never moves back.
C30_Termination ==
  /\ Running ~> ~Running
  /\ (http.pc = "loop") ~> (http.pc = "returned")
  /\ (summ.pc = "call") ~> (summ.pc = "done")
  /\ [](http.pc # "idle" => (Len(http.log) <= 2 /\ http.attempt <= 2))
  /\ [](summ.pc = "done" => summ.calls <= 2)
  /\ [](Cardinality(ModelCalls) <= 2)
  /\ [](/\ idx <= Len(scrapers) + 1
        /\ Len(hist) = idx - 1
        /\ \A i \in DOMAIN hist : hist[i].cls = scrapers[i])
  /\ [][NoRevisit]_<< runs, idx, scrapers, hist >>
  /\ [][pc = "dedup" => pc' \in {"loop", "image"}]_pc

\* a run over two sources was left after both had their outcome, the first
\* one an exception and the second one a record written
C30_Witness ==
  /\ pc \in {"raised", "returned"}
  /\ Len(scrapers) = 2
  /\ Len(hist) = 2
  /\ hist[1].outcome = "exception"
  /\ hist[2].outcome = "processed"

====
